---- MODULE Spec2Model ----
(***************************************************************************)
(* Model of the sing-box configuration receiver (server.js): the /deploy   *)
(* handler with its deployment lock, sanitizer, backup rotation, atomic    *)
(* write, syntax check, restart, health monitoring and rollback.           *)
(*                                                                         *)
(* Node.js runs one handler at a time; a handler gives up the thread only  *)
(* at an `await`.  `cur` is the request whose synchronous segment is       *)
(* running (0 when the event loop is idle); a request can start or resume  *)
(* only when cur = 0.                                                      *)
(***************************************************************************)
EXTENDS Integers, Sequences, FiniteSets, TLC

(* ---------------- bounds ---------------- *)
NumReq == 2
MaxDeploys == 2
MaxWrites == 2
MaxArchives == 4
MaxCrashes == 1

(* ---------------- program constants (CONFIG) ---------------- *)
MAX_BACKUPS == 3
CHECK_COUNT == 5

Procs == 1..NumReq

(* ---------------- JavaScript values and JSON documents ---------------- *)
\* A JS value is abstracted to its kind: undefined, null, a falsy scalar
\* (0, "", false), an empty object, an empty array, or a non-empty value.
BusinessKeys == {"dns", "outbounds", "route", "ntp"}
ProtectedKeys == {"log", "inbounds", "experimental"}
OtherKeys == ProtectedKeys \cup {"extra"}
AllKeys == BusinessKeys \cup OtherKeys
KeyOrder == <<"dns", "outbounds", "route", "ntp", "log", "inbounds", "experimental", "extra">>
JsVals == {"null", "zero", "{}", "[]", "val"}

\* a decoded object: a function from the keys it has to their values
MkDoc(b, P) ==
    [k \in {x \in BusinessKeys : b[x] # "undefined"} \cup P |->
        IF k \in BusinessKeys THEN b[k] ELSE "val"]

RawDocs ==
    {MkDoc(b, P) : b \in [BusinessKeys -> JsVals \cup {"undefined"}], P \in SUBSET OtherKeys}

\* rawConfig.k
Get(obj, k) == IF k \in DOMAIN obj THEN obj[k] ELSE "undefined"

\* v || d
OrDefault(v, d) == IF v \in {"undefined", "null", "zero"} THEN d ELSE v

\* the business fields are laid over a copy of rawConfig
CleanConfigSpread(rawConfig) ==
    LET full == [k \in BusinessKeys \cup DOMAIN rawConfig |->
                    CASE k = "dns" -> OrDefault(Get(rawConfig, "dns"), "{}")
                      [] k = "outbounds" -> OrDefault(Get(rawConfig, "outbounds"), "[]")
                      [] k = "route" -> OrDefault(Get(rawConfig, "route"), "{}")
                      [] OTHER -> Get(rawConfig, k)]
    IN [k \in {x \in DOMAIN full : full[x] \notin {"undefined", "null"}} |-> full[k]]

\* outbounds is wrapped into a list instead of being taken as the list
CleanConfigWrap(rawConfig) ==
    LET full == [k \in BusinessKeys |->
                    CASE k = "dns" -> OrDefault(Get(rawConfig, "dns"), "{}")
                      [] k = "outbounds" ->
                            IF Get(rawConfig, "outbounds") \in {"undefined", "null", "zero"}
                            THEN "[]" ELSE "val"
                      [] k = "route" -> OrDefault(Get(rawConfig, "route"), "{}")
                      [] k = "ntp" -> Get(rawConfig, "ntp")]
    IN [k \in {x \in BusinessKeys : full[x] \notin {"undefined", "null"}} |-> full[k]]

\* STEP 2: cleanConfig built from rawConfig, then null/undefined fields deleted
CleanConfig(rawConfig) ==
    LET full == [k \in BusinessKeys |->
                    CASE k = "dns" -> OrDefault(Get(rawConfig, "dns"), "{}")
                      [] k = "outbounds" -> OrDefault(Get(rawConfig, "outbounds"), "[]")
                      [] k = "route" -> OrDefault(Get(rawConfig, "route"), "{}")
                      [] k = "ntp" -> Get(rawConfig, "ntp")]
    IN [k \in {x \in BusinessKeys : full[x] \notin {"undefined", "null"}} |-> full[k]]

\* JSON.stringify(obj, null, 2): the text is the list of the object's own
\* key/value pairs in order; keys whose value is undefined are left out.
Stringify(obj) ==
    LET ks == SelectSeq(KeyOrder, LAMBDA k : k \in DOMAIN obj /\ obj[k] # "undefined")
    IN [n \in 1..Len(ks) |-> <<ks[n], obj[ks[n]]>>]

\* keys appearing in a JSON text
KeysOf(text) == {text[n][1] : n \in 1..Len(text)}


EmptyObj == [k \in {} |-> "val"]

\* JSON.parse results: the literal null, or an object (a scalar or an array
\* behaves as an object without any of the keys read here)
JsonNull == [null |-> TRUE, doc |-> EmptyObj]
JsonObj(d) == [null |-> FALSE, doc |-> d]

\* documents pushed in the deployment model
DocA == [k \in {"outbounds", "route"} |-> IF k = "outbounds" THEN "val" ELSE "{}"]
DocB == [k \in {"dns", "outbounds", "ntp", "log", "inbounds", "experimental", "extra"} |->
            CASE k = "outbounds" -> "null"
              [] k = "ntp" -> "zero"
              [] OTHER -> "val"]
PayloadDocs == {DocA, DocB}
BadPayloads == {"empty", "undecryptable", "notjson"}

(* ---------------- files ---------------- *)
Absent == [exists |-> FALSE, data |-> <<>>]
File(text) == [exists |-> TRUE, data |-> text]

\* a business file left by an earlier version or written by the operator
OldText == <<<<"dns", "val">>, <<"outbounds", "[]">>, <<"inbounds", "val">>>>
InitialProxyFiles == {Absent, File(<<>>), File(OldText)}

DEFAULT_SYSTEM_CONFIG == [k \in ProtectedKeys |-> "val"]
CustomSystemText == <<<<"log", "val">>, <<"inbounds", "[]">>>>

\* let rollbackContent = null | string
Null == [null |-> TRUE, data |-> <<>>]
Str(text) == [null |-> FALSE, data |-> text]
\* if (rollbackContent): null and the empty string are falsy
Truthy(rc) == ~rc.null /\ Len(rc.data) > 0

\* the temp file may stay after a successful call
AtomicWriteLeaky(old, content) ==
    {[ok |-> TRUE, file |-> File(content), tmp |-> t] : t \in BOOLEAN}
    \cup {[ok |-> FALSE, file |-> old, tmp |-> t] : t \in BOOLEAN}

\* atomicWrite(filePath, content): the outcomes of one call on a target that
\* holds `old`.  Either the temp write and the rename succeed, or one of them
\* throws: the target is untouched, the temp file is unlinked when it exists
\* and the unlink succeeds (tmp = TRUE: a temp file is left behind).
AtomicWrite(old, content) ==
    {[ok |-> TRUE, file |-> File(content), tmp |-> FALSE]}
    \cup {[ok |-> FALSE, file |-> old, tmp |-> t] : t \in BOOLEAN}

\* new Date() truncated to the second, as read by an archive.  Names are
\* counted in seconds from the oldest event that matters: the clock is past
\* the newest backup's second unless no timer wait (each at least 1000 ms)
\* has elapsed since that backup was written.
Timestamps(bk, same) ==
    LET newest == IF Len(bk) = 0 THEN 0 ELSE bk[Len(bk)].name
    IN IF same /\ Len(bk) > 0 THEN {newest, newest + 1} ELSE {newest + 1}

\* the pruning unlinks the newest files
RotateBackupsNewestFirst(bk, ts, content) ==
    LET written == Append(SelectSeq(bk, LAMBDA b : b.name # ts), [name |-> ts, data |-> content])
        excess == IF Len(written) > MAX_BACKUPS THEN Len(written) - MAX_BACKUPS ELSE 0
    IN {SubSeq(written, 1, Len(written) - j) : j \in 0..excess}

\* rotateBackups(currentContent) once the backup file was written.  bk is the
\* backup directory, oldest mtime first; ts is the second-resolution timestamp
\* of the file name.  A file of the same name is overwritten.  Pruning sorts
\* newest first and unlinks everything past MAX_BACKUPS in that order; it
\* stops at the first error (j of the deletions done).
RotateBackups(bk, ts, content) ==
    LET written == Append(SelectSeq(bk, LAMBDA b : b.name # ts), [name |-> ts, data |-> content])
        excess == IF Len(written) > MAX_BACKUPS THEN Len(written) - MAX_BACKUPS ELSE 0
    IN {SubSeq(written, 1, excess - j) \o SubSeq(written, excess + 1, Len(written)) : j \in 0..excess}

\* runCmd(command): success, or a thrown error for a non-zero exit or a timeout
CmdOutcomes == {"ok", "nonzero", "timeout"}
Threw(o) == o \in {"nonzero", "timeout"}
Res(o) == IF Threw(o) THEN "fail" ELSE "ok"

\* exit codes of `rc-service sing-box status`: 0 running, 3 stopped, other
StatusCodes == {0, 3, 1}
\* checkServiceHealth() when the status command returns with exit code c
checkServiceHealth(c) == c = 0

(* ---------------- paths ---------------- *)
\* CONFIG.BASE_DIR, CONFIG.BACKUP_DIR and the file names, as path components
BASE_DIR == <<"etc", "sing-box", "conf.d">>
BACKUP_DIR == <<"etc", "sing-box", "backups">>
PROXY_FILE == "10-proxy.json"
SYSTEM_FILE == "00-system.json"
\* path.join(dir, name)
PathJoin(dir, name) == Append(dir, name)
\* the path lies in dir or below it
Under(path, dir) == Len(path) > Len(dir) /\ SubSeq(path, 1, Len(dir)) = dir
targetPath == PathJoin(BASE_DIR, PROXY_FILE)
sysPath == PathJoin(BASE_DIR, SYSTEM_FILE)
\* filePath + ".tmp." + Date.now(), for either file of BASE_DIR
tempPath == PathJoin(BASE_DIR, "*.json.tmp.*")
\* path.join(CONFIG.BACKUP_DIR, `proxy_${timestamp}.json`)
backupPath(ts) == PathJoin(BACKUP_DIR, "proxy_" \o ToString(ts) \o ".json")

(* ---------------- state ---------------- *)
VARIABLES
    isDeploying,      \* the global deployment lock
    cur,              \* request running on the JS thread, 0 if none
    pc,               \* position of each request's handler
    rollbackContent,  \* per request: let rollbackContent
    rawConfig,        \* per request: let rawConfig
    cleanConfig,      \* per request: const cleanConfig
    i,                \* per request: loop index of the health monitor
    err,              \* per request: stage whose error the catch block caught
    rb,               \* per request: what the catch block did
    resp,             \* per request: HTTP status sent (0: none yet)
    trace,            \* per request: commands, waits and file operations done
    proxy,            \* BASE_DIR/10-proxy.json
    sysFile,          \* BASE_DIR/00-system.json
    tmpLeft,          \* a *.tmp.* file is left in BASE_DIR
    backups,          \* BACKUP_DIR, oldest mtime first
    sameSec,          \* no timer wait has elapsed since the newest backup was written
    prior,            \* business file when the most recent deployment took the lock
    last,             \* summary of the most recent deployment that ended
    aw,               \* one atomicWrite call, system call by system call
    archived,         \* contents handed to rotateBackups, in order
    health,           \* the last answer of GET /health
    crashed,          \* kills of the agent process so far, and what the last one hit
    bw,               \* one backup write of rotateBackups, system call by system call
    cl,               \* one Deploy call of the client plug-in
    poll              \* the client's loadDependence calls

reqVars == <<pc, cur, rollbackContent, rawConfig, cleanConfig, i, err, rb, resp, trace>>
fsVars == <<proxy, sysFile, tmpLeft, backups>>
mainVars == <<isDeploying, reqVars, fsVars, sameSec, prior, last>>
auxVars == <<aw, archived, health, crashed, bw, cl, poll>>
vars == <<mainVars, auxVars>>

NoLast == [kind |-> "none", text |-> <<>>]

\* how a deployment ended: with the success response and the text it applied,
\* with an I/O error in the re-apply or the unlink of its catch block, or
\* with any other failure
Summary(status, rbDone, text) ==
    IF status = 200 THEN [kind |-> "success", text |-> text]
    ELSE IF rbDone \in {"writefailed", "unlinkfailed"} THEN [kind |-> "rbioerror", text |-> <<>>]
    ELSE [kind |-> "failed", text |-> <<>>]

\* no atomicWrite call yet on a target that holds f
AwIdle(f) == [pc |-> "idle", at |-> "idle", old |-> f, target |-> f, temp |-> Absent,
              content |-> <<>>, unlink |-> "none", n |-> 0]
\* GET /health not served yet
NoHealth == [code |-> -2, status |-> 0, during |-> FALSE]
\* the agent was never killed
NoCrash == [n |-> 0, at |-> "none", verified |-> FALSE, deployed |-> 0]
\* rotateBackups has not written a backup yet
BwIdle == [pc |-> "idle", old |-> Absent, file |-> Absent, content |-> <<>>, n |-> 0]
\* Deploy was not called yet
ClIdle == [pc |-> "idle", req |-> 0, status |-> 0, note |-> "none", destroyed |-> FALSE]
\* loadDependence was not called yet, and window.CryptoJS is not defined
PollIdle == [pc |-> "idle", lib |-> FALSE, text |-> "none", dl |-> FALSE, counter |-> 0,
             timer |-> FALSE, out |-> "none", n |-> 0]
InitAux ==
    /\ aw = AwIdle(Absent)
    /\ archived = <<>>
    /\ health = NoHealth
    /\ crashed = NoCrash
    /\ bw = BwIdle
    /\ cl = ClIdle
    /\ poll = PollIdle

Init ==
    /\ isDeploying = FALSE
    /\ cur = 0
    /\ pc = [p \in Procs |-> "idle"]
    /\ rollbackContent = [p \in Procs |-> Null]
    /\ rawConfig = [p \in Procs |-> JsonObj(EmptyObj)]
    /\ cleanConfig = [p \in Procs |-> EmptyObj]
    /\ i = [p \in Procs |-> 0]
    /\ err = [p \in Procs |-> "none"]
    /\ rb = [p \in Procs |-> "none"]
    /\ resp = [p \in Procs |-> 0]
    /\ trace = [p \in Procs |-> <<>>]
    /\ proxy \in InitialProxyFiles
    /\ sysFile \in {Absent, File(CustomSystemText)}
    /\ tmpLeft = FALSE
    /\ backups = <<>>
    /\ sameSec = FALSE
    /\ prior = proxy
    /\ last = NoLast
    /\ InitAux


(* ---------------- the /deploy handler ---------------- *)
Log(p, ev) == trace' = [trace EXCEPT ![p] = Append(@, ev)]

\* an error thrown inside the try block at `stage`: control goes to the catch
\* block, which rolls back if (rollbackContent) and cleans up otherwise
\* a catch block that only reports the error
CatchPcReportOnly(rc) == "fail"
CatchPc(rc) == IF Truthy(rc) THEN "rbwrite" ELSE "cleanup"
Throw(p, stage) ==
    /\ err' = [err EXCEPT ![p] = stage]
    /\ pc' = [pc EXCEPT ![p] = CatchPc(rollbackContent[p])]

\* requests that took the lock so far
Deployed(p) == pc[p] \notin {"idle", "lock"} /\ resp[p] \notin {401, 429}
NumDeployed == Cardinality({p \in Procs : Deployed(p)})

\* the lock is looked at before the token
AuthAfterLock(p) ==
    /\ pc[p] = "idle" /\ cur = 0
    /\ \A q \in Procs : q < p => pc[q] # "idle"
    /\ \E ok \in BOOLEAN :
        IF isDeploying
        THEN /\ pc' = [pc EXCEPT ![p] = "done"]
             /\ cur' = 0
             /\ resp' = [resp EXCEPT ![p] = 429]
        ELSE IF ok
        THEN /\ NumDeployed < MaxDeploys
             /\ pc' = [pc EXCEPT ![p] = "lock"]
             /\ cur' = p
             /\ resp' = resp
        ELSE /\ pc' = [pc EXCEPT ![p] = "done"]
             /\ cur' = 0
             /\ resp' = [resp EXCEPT ![p] = 401]
    /\ UNCHANGED <<isDeploying, rollbackContent, rawConfig, cleanConfig, i, err, rb, trace,
                   fsVars, sameSec, prior, last>>
    /\ UNCHANGED auxVars

\* 1. authentication; a new request is taken up when the thread is free.
\* Requests are numbered in their order of arrival, and at most MaxDeploys
\* of them get to deploy.
Auth(p) ==
    /\ pc[p] = "idle" /\ cur = 0
    /\ \A q \in Procs : q < p => pc[q] # "idle"
    /\ \E ok \in BOOLEAN :
        IF ok
        THEN /\ isDeploying \/ NumDeployed < MaxDeploys
             /\ pc' = [pc EXCEPT ![p] = "lock"]
             /\ cur' = p
             /\ resp' = resp
        ELSE /\ pc' = [pc EXCEPT ![p] = "done"]
             /\ cur' = 0
             /\ resp' = [resp EXCEPT ![p] = 401]
    /\ UNCHANGED <<isDeploying, rollbackContent, rawConfig, cleanConfig, i, err, rb, trace,
                   fsVars, sameSec, prior, last>>
    /\ UNCHANGED auxVars

\* 2. lock check and acquisition
AcquireLock(p) ==
    /\ isDeploying' = TRUE
    /\ pc' = [pc EXCEPT ![p] = "ensure"]
    /\ rollbackContent' = [rollbackContent EXCEPT ![p] = Null]
    /\ prior' = proxy
    /\ UNCHANGED <<cur, resp>>

\* the rejected request releases the lock on its way out
RejectBusyUnlocks(p) ==
    /\ pc' = [pc EXCEPT ![p] = "done"]
    /\ cur' = 0
    /\ resp' = [resp EXCEPT ![p] = 429]
    /\ isDeploying' = FALSE
    /\ UNCHANGED <<rollbackContent, prior>>

RejectBusy(p) ==
    /\ pc' = [pc EXCEPT ![p] = "done"]
    /\ cur' = 0
    /\ resp' = [resp EXCEPT ![p] = 429]
    /\ UNCHANGED <<isDeploying, rollbackContent, prior>>

\* the lock is taken without looking at the flag
LockCheckBlind(p) ==
    /\ pc[p] = "lock" /\ cur = p
    /\ AcquireLock(p)
    /\ UNCHANGED <<rawConfig, cleanConfig, i, err, rb, trace, fsVars, sameSec, last>>
    /\ UNCHANGED auxVars

LockCheck(p) ==
    /\ pc[p] = "lock" /\ cur = p
    /\ IF isDeploying THEN RejectBusy(p) ELSE AcquireLock(p)
    /\ UNCHANGED <<rawConfig, cleanConfig, i, err, rb, trace, fsVars, sameSec, last>>
    /\ UNCHANGED auxVars

\* STEP 0: ensureSystemConfig()
\* a default that cannot be generated is not an error
StepEnsureLenient(p) ==
    /\ pc[p] = "ensure" /\ cur = p
    /\ pc' = [pc EXCEPT ![p] = "parse"]
    /\ IF sysFile.exists
       THEN UNCHANGED <<sysFile, tmpLeft, err>>
       ELSE \E o \in AtomicWrite(sysFile, Stringify(DEFAULT_SYSTEM_CONFIG)) :
            /\ sysFile' = o.file
            /\ tmpLeft' = (tmpLeft \/ o.tmp)
            /\ err' = err
    /\ UNCHANGED <<isDeploying, cur, rollbackContent, rawConfig, cleanConfig, i, rb, resp, trace,
                   proxy, backups, sameSec, prior, last>>
    /\ UNCHANGED auxVars

StepEnsureAlways(p) ==
    /\ pc[p] = "ensure" /\ cur = p
    /\ \E o \in AtomicWrite(sysFile, Stringify(DEFAULT_SYSTEM_CONFIG)) :
            /\ sysFile' = o.file
            /\ tmpLeft' = (tmpLeft \/ o.tmp)
            /\ IF o.ok
               THEN pc' = [pc EXCEPT ![p] = "parse"] /\ err' = err
               ELSE Throw(p, "ensure")
    /\ UNCHANGED <<isDeploying, cur, rollbackContent, rawConfig, cleanConfig, i, rb, resp, trace,
                   proxy, backups, sameSec, prior, last>>
    /\ UNCHANGED auxVars

StepEnsure(p) ==
    /\ pc[p] = "ensure" /\ cur = p
    /\ IF sysFile.exists
       THEN /\ pc' = [pc EXCEPT ![p] = "parse"]
            /\ UNCHANGED <<sysFile, tmpLeft, err>>
       ELSE \E o \in AtomicWrite(sysFile, Stringify(DEFAULT_SYSTEM_CONFIG)) :
            /\ sysFile' = o.file
            /\ tmpLeft' = (tmpLeft \/ o.tmp)
            /\ IF o.ok
               THEN pc' = [pc EXCEPT ![p] = "parse"] /\ err' = err
               ELSE Throw(p, "ensure")
    /\ UNCHANGED <<isDeploying, cur, rollbackContent, rawConfig, cleanConfig, i, rb, resp, trace,
                   proxy, backups, sameSec, prior, last>>
    /\ UNCHANGED auxVars

\* STEP 1: decrypt and parse req.body.content
StepParse(p) ==
    /\ pc[p] = "parse" /\ cur = p
    /\ \/ /\ \E bad \in BadPayloads : Log(p, <<"payload", "bad">>)
          /\ Throw(p, "payload")
          /\ rawConfig' = rawConfig
       \/ \E r \in {JsonNull} \cup {JsonObj(d) : d \in PayloadDocs} :
          /\ rawConfig' = [rawConfig EXCEPT ![p] = r]
          /\ pc' = [pc EXCEPT ![p] = "sanitize"]
          /\ Log(p, <<"payload", "ok">>)
          /\ err' = err
    /\ UNCHANGED <<isDeploying, cur, rollbackContent, cleanConfig, i, rb, resp,
                   fsVars, sameSec, prior, last>>
    /\ UNCHANGED auxVars

\* STEP 2: the discrete strategy; reading a property of null throws
\* STEP 3 is left out
StepSanitizeSkipsBackup(p) ==
    /\ pc[p] = "sanitize" /\ cur = p
    /\ IF rawConfig[p].null
       THEN Throw(p, "sanitize") /\ cleanConfig' = cleanConfig /\ trace' = trace
       ELSE /\ cleanConfig' = [cleanConfig EXCEPT ![p] = CleanConfig(rawConfig[p].doc)]
            /\ pc' = [pc EXCEPT ![p] = "apply"]
            /\ Log(p, <<"sanitize", "ok">>)
            /\ err' = err
    /\ UNCHANGED <<isDeploying, cur, rollbackContent, rawConfig, i, rb, resp,
                   fsVars, sameSec, prior, last>>
    /\ UNCHANGED auxVars

StepSanitize(p) ==
    /\ pc[p] = "sanitize" /\ cur = p
    /\ IF rawConfig[p].null
       THEN Throw(p, "sanitize") /\ cleanConfig' = cleanConfig /\ trace' = trace
       ELSE /\ cleanConfig' = [cleanConfig EXCEPT ![p] = CleanConfig(rawConfig[p].doc)]
            /\ pc' = [pc EXCEPT ![p] = "backup"]
            /\ Log(p, <<"sanitize", "ok">>)
            /\ err' = err
    /\ UNCHANGED <<isDeploying, cur, rollbackContent, rawConfig, i, rb, resp,
                   fsVars, sameSec, prior, last>>
    /\ UNCHANGED auxVars

\* an error of the read aborts the deployment
StepBackupFatal(p) ==
    /\ pc[p] = "backup" /\ cur = p
    /\ IF proxy.exists
       THEN \/ /\ Log(p, <<"read", "fail">>)
               /\ Throw(p, "backup")
               /\ UNCHANGED <<rollbackContent, backups, sameSec>>
            \/ /\ rollbackContent' = [rollbackContent EXCEPT ![p] = Str(proxy.data)]
               /\ pc' = [pc EXCEPT ![p] = "apply"]
               /\ err' = err
               /\ \/ /\ Log(p, <<"archive", "fail">>)
                     /\ backups' = backups
                     /\ sameSec' = sameSec
                  \/ /\ Log(p, <<"archive", "ok">>)
                     /\ \E ts \in Timestamps(backups, sameSec) :
                            backups' \in RotateBackups(backups, ts, proxy.data)
                     /\ sameSec' = TRUE
       ELSE /\ pc' = [pc EXCEPT ![p] = "apply"]
            /\ UNCHANGED <<rollbackContent, backups, trace, sameSec, err>>
    /\ UNCHANGED <<isDeploying, cur, rawConfig, cleanConfig, i, rb, resp,
                   proxy, sysFile, tmpLeft, prior, last>>
    /\ UNCHANGED auxVars

\* STEP 3: read the current file into rollbackContent and archive it; every
\* error is caught and logged
StepBackup(p) ==
    /\ pc[p] = "backup" /\ cur = p
    /\ pc' = [pc EXCEPT ![p] = "apply"]
    /\ IF proxy.exists
       THEN \/ /\ Log(p, <<"read", "fail">>)
               /\ UNCHANGED <<rollbackContent, backups, sameSec>>
            \/ /\ rollbackContent' = [rollbackContent EXCEPT ![p] = Str(proxy.data)]
               /\ \/ /\ Log(p, <<"archive", "fail">>)
                     /\ backups' = backups
                     /\ sameSec' = sameSec
                  \/ /\ Log(p, <<"archive", "ok">>)
                     /\ \E ts \in Timestamps(backups, sameSec) :
                            backups' \in RotateBackups(backups, ts, proxy.data)
                     /\ sameSec' = TRUE
       ELSE UNCHANGED <<rollbackContent, backups, trace, sameSec>>
    /\ UNCHANGED <<isDeploying, cur, rawConfig, cleanConfig, i, err, rb, resp,
                   proxy, sysFile, tmpLeft, prior, last>>
    /\ UNCHANGED auxVars

\* a failed write of the new content is not thrown
StepApplyUnchecked(p) ==
    /\ pc[p] = "apply" /\ cur = p
    /\ \E o \in AtomicWrite(proxy, Stringify(cleanConfig[p])) :
        /\ proxy' = o.file
        /\ tmpLeft' = (tmpLeft \/ o.tmp)
        /\ pc' = [pc EXCEPT ![p] = "check"]
        /\ err' = err
        /\ Log(p, <<"apply", IF o.ok THEN "ok" ELSE "fail">>)
    /\ UNCHANGED <<isDeploying, cur, rollbackContent, rawConfig, cleanConfig, i, rb, resp,
                   sysFile, backups, sameSec, prior, last>>
    /\ UNCHANGED auxVars

\* STEP 4: atomicWrite(targetPath, JSON.stringify(cleanConfig, null, 2))
StepApply(p) ==
    /\ pc[p] = "apply" /\ cur = p
    /\ \E o \in AtomicWrite(proxy, Stringify(cleanConfig[p])) :
        /\ proxy' = o.file
        /\ tmpLeft' = (tmpLeft \/ o.tmp)
        /\ IF o.ok
           THEN pc' = [pc EXCEPT ![p] = "check"] /\ err' = err /\ Log(p, <<"apply", "ok">>)
           ELSE Throw(p, "apply") /\ Log(p, <<"apply", "fail">>)
    /\ UNCHANGED <<isDeploying, cur, rollbackContent, rawConfig, cleanConfig, i, rb, resp,
                   sysFile, backups, sameSec, prior, last>>
    /\ UNCHANGED auxVars

\* the result of the check is not looked at
StepCheckIgnored(p) ==
    /\ pc[p] = "check" /\ cur = p
    /\ \E o \in CmdOutcomes :
        /\ Log(p, <<"check", Res(o)>>)
        /\ pc' = [pc EXCEPT ![p] = "restart"] /\ err' = err
    /\ UNCHANGED <<isDeploying, cur, rollbackContent, rawConfig, cleanConfig, i, rb, resp,
                   fsVars, sameSec, prior, last>>
    /\ UNCHANGED auxVars

\* STEP 5: runCmd(CONFIG.CMD.CHECK)
StepCheck(p) ==
    /\ pc[p] = "check" /\ cur = p
    /\ \E o \in CmdOutcomes :
        /\ Log(p, <<"check", Res(o)>>)
        /\ IF o = "ok"
           THEN pc' = [pc EXCEPT ![p] = "restart"] /\ err' = err
           ELSE Throw(p, "check")
    /\ UNCHANGED <<isDeploying, cur, rollbackContent, rawConfig, cleanConfig, i, rb, resp,
                   fsVars, sameSec, prior, last>>
    /\ UNCHANGED auxVars

\* the first probe follows the restart at once
StepRestartNoDelay(p) ==
    /\ pc[p] = "restart" /\ cur = p
    /\ \E o \in CmdOutcomes :
        /\ Log(p, <<"restart", Res(o)>>)
        /\ IF o = "ok"
           THEN /\ pc' = [pc EXCEPT ![p] = "probe"]
                /\ i' = [i EXCEPT ![p] = 1]
                /\ UNCHANGED <<cur, err>>
           ELSE Throw(p, "restart") /\ UNCHANGED <<i, cur>>
    /\ UNCHANGED <<isDeploying, rollbackContent, rawConfig, cleanConfig, rb, resp,
                   fsVars, sameSec, prior, last>>
    /\ UNCHANGED auxVars

\* STEP 5: runCmd(CONFIG.CMD.RESTART), then the await of INITIAL_DELAY
StepRestart(p) ==
    /\ pc[p] = "restart" /\ cur = p
    /\ \E o \in CmdOutcomes :
        /\ Log(p, <<"restart", Res(o)>>)
        /\ IF o = "ok"
           THEN /\ pc' = [pc EXCEPT ![p] = "delay"]
                /\ i' = [i EXCEPT ![p] = 1]
                /\ cur' = 0
                /\ err' = err
           ELSE Throw(p, "restart") /\ UNCHANGED <<i, cur>>
    /\ UNCHANGED <<isDeploying, rollbackContent, rawConfig, cleanConfig, rb, resp,
                   fsVars, sameSec, prior, last>>
    /\ UNCHANGED auxVars

\* a setTimeout promise resolves and the handler continues
AfterWait(at) == CASE at = "delay" -> "probe" [] at = "interval" -> "probe" [] OTHER -> "rbprobe"
TimerFires(p) ==
    /\ pc[p] \in {"delay", "interval", "rbwait"} /\ cur = 0
    /\ cur' = p
    /\ Log(p, <<"wait", pc[p]>>)
    /\ pc' = [pc EXCEPT ![p] = AfterWait(pc[p])]
    /\ sameSec' = FALSE
    /\ UNCHANGED <<isDeploying, rollbackContent, rawConfig, cleanConfig, i, err, rb, resp,
                   fsVars, prior, last>>
    /\ UNCHANGED auxVars


\* the loop bound is off by one
MonitorNextOffByOne(idx, up) ==
    IF ~up THEN "throw"
    ELSE IF idx <= CHECK_COUNT THEN "interval" ELSE "respond"

\* STEP 6: one iteration of the health monitor loop, given the probe's answer
MonitorNext(idx, up) ==
    IF ~up THEN "throw"
    ELSE IF idx < CHECK_COUNT THEN "interval" ELSE "respond"

StepProbe(p) ==
    /\ pc[p] = "probe" /\ cur = p
    /\ \E code \in StatusCodes :
       LET up == checkServiceHealth(code)
           nxt == MonitorNext(i[p], up)
       IN /\ Log(p, <<"probe", IF up THEN "up" ELSE "down">>)
          /\ CASE nxt = "throw" -> Throw(p, "probe") /\ UNCHANGED <<i, cur>>
               [] nxt = "interval" ->
                    /\ pc' = [pc EXCEPT ![p] = "interval"]
                    /\ i' = [i EXCEPT ![p] = @ + 1]
                    /\ cur' = 0
                    /\ err' = err
               [] OTHER ->
                    /\ pc' = [pc EXCEPT ![p] = "respond"]
                    /\ UNCHANGED <<i, cur, err>>
    /\ UNCHANGED <<isDeploying, rollbackContent, rawConfig, cleanConfig, rb, resp,
                   fsVars, sameSec, prior, last>>
    /\ UNCHANGED auxVars

\* execSync(CONFIG.CMD.STATUS) has no timeout: a status command that never
\* exits blocks the thread for ever
ProbeHangs(p) ==
    /\ pc[p] \in {"probe", "rbprobe"} /\ cur = p
    /\ pc' = [pc EXCEPT ![p] = "hung"]
    /\ UNCHANGED <<isDeploying, cur, rollbackContent, rawConfig, cleanConfig, i, err, rb, resp,
                   trace, fsVars, sameSec, prior, last>>
    /\ UNCHANGED auxVars

\* the success response
StepSuccess(p) ==
    /\ pc[p] = "respond" /\ cur = p
    /\ resp' = [resp EXCEPT ![p] = 200]
    /\ pc' = [pc EXCEPT ![p] = "finally"]
    /\ UNCHANGED <<isDeploying, cur, rollbackContent, rawConfig, cleanConfig, i, err, rb, trace,
                   fsVars, sameSec, prior, last>>
    /\ UNCHANGED auxVars

\* catch block, if (rollbackContent): atomicWrite(targetPath, rollbackContent)
RbWrite(p) ==
    /\ pc[p] = "rbwrite" /\ cur = p
    /\ \E o \in AtomicWrite(proxy, rollbackContent[p].data) :
        /\ proxy' = o.file
        /\ tmpLeft' = (tmpLeft \/ o.tmp)
        /\ IF o.ok
           THEN /\ pc' = [pc EXCEPT ![p] = "rbrestart"]
                /\ Log(p, <<"rbwrite", "ok">>)
                /\ rb' = rb
           ELSE /\ pc' = [pc EXCEPT ![p] = "fail"]
                /\ Log(p, <<"rbwrite", "fail">>)
                /\ rb' = [rb EXCEPT ![p] = "writefailed"]
    /\ UNCHANGED <<isDeploying, cur, rollbackContent, rawConfig, cleanConfig, i, err, resp,
                   sysFile, backups, sameSec, prior, last>>
    /\ UNCHANGED auxVars

\* a restart that failed is issued again
RbRestartRetry(p) ==
    /\ pc[p] = "rbrestart" /\ cur = p
    /\ \E o \in CmdOutcomes :
        /\ Log(p, <<"rbrestart", Res(o)>>)
        /\ IF o = "ok"
           THEN /\ pc' = [pc EXCEPT ![p] = "rbwait"]
                /\ cur' = 0
                /\ rb' = rb
           ELSE /\ pc' = [pc EXCEPT ![p] = IF Len(trace[p]) < 12 THEN "rbrestart" ELSE "fail"]
                /\ cur' = cur
                /\ rb' = [rb EXCEPT ![p] = "restartfailed"]
    /\ UNCHANGED <<isDeploying, rollbackContent, rawConfig, cleanConfig, i, err, resp,
                   fsVars, sameSec, prior, last>>
    /\ UNCHANGED auxVars

\* catch block: runCmd(CONFIG.CMD.RESTART), then the await of 2000 ms
RbRestart(p) ==
    /\ pc[p] = "rbrestart" /\ cur = p
    /\ \E o \in CmdOutcomes :
        /\ Log(p, <<"rbrestart", Res(o)>>)
        /\ IF o = "ok"
           THEN /\ pc' = [pc EXCEPT ![p] = "rbwait"]
                /\ cur' = 0
                /\ rb' = rb
           ELSE /\ pc' = [pc EXCEPT ![p] = "fail"]
                /\ cur' = cur
                /\ rb' = [rb EXCEPT ![p] = "restartfailed"]
    /\ UNCHANGED <<isDeploying, rollbackContent, rawConfig, cleanConfig, i, err, resp,
                   fsVars, sameSec, prior, last>>
    /\ UNCHANGED auxVars

\* the rollback is tried again when the service is still down
RbProbeRetry(p) ==
    /\ pc[p] = "rbprobe" /\ cur = p
    /\ \E code \in StatusCodes :
       LET up == checkServiceHealth(code)
       IN /\ Log(p, <<"rbprobe", IF up THEN "up" ELSE "down">>)
          /\ rb' = [rb EXCEPT ![p] = IF up THEN "recovered" ELSE "fatal"]
          /\ pc' = [pc EXCEPT ![p] = IF up THEN "fail" ELSE "rbrestart"]
    /\ UNCHANGED <<isDeploying, cur, rollbackContent, rawConfig, cleanConfig, i, err, resp,
                   fsVars, sameSec, prior, last>>
    /\ UNCHANGED auxVars

\* catch block: the single check after the rollback
RbProbe(p) ==
    /\ pc[p] = "rbprobe" /\ cur = p
    /\ \E code \in StatusCodes :
       LET up == checkServiceHealth(code)
       IN /\ Log(p, <<"rbprobe", IF up THEN "up" ELSE "down">>)
          /\ rb' = [rb EXCEPT ![p] = IF up THEN "recovered" ELSE "fatal"]
    /\ pc' = [pc EXCEPT ![p] = "fail"]
    /\ UNCHANGED <<isDeploying, cur, rollbackContent, rawConfig, cleanConfig, i, err, resp,
                   fsVars, sameSec, prior, last>>
    /\ UNCHANGED auxVars

\* catch block, else branch: if (fs.existsSync(targetPath) && !rollbackContent)
\* the file is unlinked; an unlink error is swallowed
\* the negation of the condition is lost
ShouldUnlinkInverted(file, rc) == file.exists /\ Truthy(rc)
ShouldUnlink(file, rc) == file.exists /\ ~Truthy(rc)

Cleanup(p) ==
    /\ pc[p] = "cleanup" /\ cur = p
    /\ pc' = [pc EXCEPT ![p] = "fail"]
    /\ IF ShouldUnlink(proxy, rollbackContent[p])
       THEN \/ /\ proxy' = Absent
               /\ rb' = [rb EXCEPT ![p] = "cleaned"]
               /\ Log(p, <<"unlink", "ok">>)
            \/ /\ proxy' = proxy
               /\ rb' = [rb EXCEPT ![p] = "unlinkfailed"]
               /\ Log(p, <<"unlink", "fail">>)
       ELSE /\ proxy' = proxy
            /\ rb' = [rb EXCEPT ![p] = "nofile"]
            /\ trace' = trace
    /\ UNCHANGED <<isDeploying, cur, rollbackContent, rawConfig, cleanConfig, i, err, resp,
                   sysFile, tmpLeft, backups, sameSec, prior, last>>
    /\ UNCHANGED auxVars

\* res.status(500).json(...)
RespondError(p) ==
    /\ pc[p] = "fail" /\ cur = p
    /\ resp' = [resp EXCEPT ![p] = 500]
    /\ pc' = [pc EXCEPT ![p] = "finally"]
    /\ UNCHANGED <<isDeploying, cur, rollbackContent, rawConfig, cleanConfig, i, err, rb, trace,
                   fsVars, sameSec, prior, last>>
    /\ UNCHANGED auxVars

\* finally { isDeploying = false }; the handler returns and its locals die
Finally(p) ==
    /\ pc[p] = "finally" /\ cur = p
    /\ isDeploying' = FALSE
    /\ cur' = 0
    /\ pc' = [pc EXCEPT ![p] = "done"]
    /\ last' = Summary(resp[p], rb[p], Stringify(cleanConfig[p]))
    /\ rollbackContent' = [rollbackContent EXCEPT ![p] = Null]
    /\ rawConfig' = [rawConfig EXCEPT ![p] = JsonObj(EmptyObj)]
    /\ cleanConfig' = [cleanConfig EXCEPT ![p] = EmptyObj]
    /\ i' = [i EXCEPT ![p] = 0]
    /\ err' = [err EXCEPT ![p] = "none"]
    /\ rb' = [rb EXCEPT ![p] = "none"]
    /\ trace' = [trace EXCEPT ![p] = <<>>]
    /\ UNCHANGED <<resp, fsVars, sameSec, prior>>
    /\ UNCHANGED auxVars

Next ==
    \/ \E p \in Procs : Auth(p)
    \/ \E p \in Procs : LockCheck(p)
    \/ \E p \in Procs : StepEnsure(p)
    \/ \E p \in Procs : StepParse(p)
    \/ \E p \in Procs : StepSanitize(p)
    \/ \E p \in Procs : StepBackup(p)
    \/ \E p \in Procs : StepApply(p)
    \/ \E p \in Procs : StepCheck(p)
    \/ \E p \in Procs : StepRestart(p)
    \/ \E p \in Procs : TimerFires(p)
    \/ \E p \in Procs : StepProbe(p)
    \/ \E p \in Procs : ProbeHangs(p)
    \/ \E p \in Procs : StepSuccess(p)
    \/ \E p \in Procs : RbWrite(p)
    \/ \E p \in Procs : RbRestart(p)
    \/ \E p \in Procs : RbProbe(p)
    \/ \E p \in Procs : Cleanup(p)
    \/ \E p \in Procs : RespondError(p)
    \/ \E p \in Procs : Finally(p)

Spec == Init /\ [][Next]_vars

\* Node runs a started handler to its end and fires every timer; nothing
\* forces a request to arrive or a hung status command to return.
HandlerStep(p) ==
    \/ LockCheck(p) \/ StepEnsure(p) \/ StepParse(p) \/ StepSanitize(p) \/ StepBackup(p)
    \/ StepApply(p) \/ StepCheck(p) \/ StepRestart(p) \/ TimerFires(p) \/ StepProbe(p)
    \/ StepSuccess(p) \/ RbWrite(p) \/ RbRestart(p) \/ RbProbe(p) \/ Cleanup(p)
    \/ RespondError(p) \/ Finally(p)

FairSpec == Spec /\ \A p \in Procs : WF_vars(HandlerStep(p))

(* ---------------- the handler from STEP 2 on, for any decoded document ---------------- *)
InitSan ==
    /\ isDeploying = TRUE
    /\ cur = 1
    /\ pc = [p \in Procs |-> IF p = 1 THEN "sanitize" ELSE "idle"]
    /\ rollbackContent = [p \in Procs |-> Null]
    /\ rawConfig \in {[p \in Procs |-> IF p = 1 THEN r ELSE JsonObj(EmptyObj)] :
                        r \in {JsonNull} \cup {JsonObj(d) : d \in RawDocs}}
    /\ cleanConfig = [p \in Procs |-> EmptyObj]
    /\ i = [p \in Procs |-> 0]
    /\ err = [p \in Procs |-> "none"]
    /\ rb = [p \in Procs |-> "none"]
    /\ resp = [p \in Procs |-> 0]
    /\ trace = [p \in Procs |-> IF p = 1 THEN <<<<"payload", "ok">>>> ELSE <<>>]
    /\ proxy \in InitialProxyFiles
    /\ sysFile = File(CustomSystemText)
    /\ tmpLeft = FALSE
    /\ backups = <<>>
    /\ sameSec = FALSE
    /\ prior = proxy
    /\ last = NoLast
    /\ InitAux

NextSan ==
    \/ \E p \in Procs : StepSanitize(p)
    \/ \E p \in Procs : StepBackup(p)
    \/ \E p \in Procs : StepApply(p)

SpecSan == InitSan /\ [][NextSan]_vars

(* ---------------- deployments over a full backup directory ---------------- *)
\* BACKUP_DIR as MAX_BACKUPS earlier deployments left it
FullBackups ==
    <<[name |-> 1, data |-> OldText],
      [name |-> 2, data |-> Stringify(CleanConfig(DocA))],
      [name |-> 3, data |-> OldText]>>

InitPrune ==
    /\ Init!1 /\ Init!2 /\ Init!3 /\ Init!4 /\ Init!5 /\ Init!6 /\ Init!7 /\ Init!8
    /\ Init!9 /\ Init!10 /\ Init!11
    /\ proxy \in {File(<<>>), File(OldText)} /\ sysFile = File(CustomSystemText)
    /\ tmpLeft = FALSE /\ backups = FullBackups /\ sameSec = FALSE
    /\ prior = proxy /\ last = NoLast
    /\ InitAux

SpecPrune == InitPrune /\ [][Next]_vars

(* ---------------- atomicWrite, system call by system call ---------------- *)
\* the texts the program hands to atomicWrite: the serialized sanitized
\* document, the rollback content, the default system configuration
AwContents ==
    {Stringify(CleanConfig(d)) : d \in PayloadDocs} \cup {OldText, Stringify(DEFAULT_SYSTEM_CONFIG)}

InitAW ==
    /\ Init!1 /\ Init!2 /\ Init!3 /\ Init!4 /\ Init!5 /\ Init!6 /\ Init!7 /\ Init!8
    /\ Init!9 /\ Init!10 /\ Init!11
    /\ proxy = Absent /\ sysFile = File(CustomSystemText)
    /\ tmpLeft = FALSE /\ backups = <<>> /\ sameSec = FALSE /\ prior = proxy /\ last = NoLast
    /\ aw \in {AwIdle(f) : f \in InitialProxyFiles}
    /\ archived = <<>>
    /\ health = NoHealth
    /\ crashed = NoCrash
    /\ bw = BwIdle
    /\ cl = ClIdle
    /\ poll = PollIdle

awFrame == UNCHANGED <<mainVars, archived, health, crashed, bw, cl, poll>>

\* atomicWrite(filePath, content) is called; tempPath is a fresh name
AwCall ==
    /\ aw.pc \in {"idle", "done", "threw"} /\ aw.n < MaxWrites
    /\ \E c \in AwContents :
        aw' = [pc |-> "open", at |-> "open", old |-> aw.target, target |-> aw.target,
               temp |-> Absent, content |-> c, unlink |-> "none", n |-> aw.n + 1]
    /\ awFrame

\* fs.writeFileSync(tempPath, content): open with O_CREAT | O_TRUNC
AwOpen ==
    /\ aw.pc = "open"
    /\ \/ aw' = [aw EXCEPT !.pc = "write", !.temp = File(<<>>)]
       \/ aw' = [aw EXCEPT !.pc = "catch"]
    /\ awFrame

\* the next piece of content goes into the file the descriptor is open on
AwChunkInPlace ==
    /\ aw.pc = "write" /\ Len(aw.target.data) < Len(aw.content)
    /\ aw' = [aw EXCEPT !.target = File(SubSeq(aw.content, 1, Len(aw.target.data) + 1))]
    /\ awFrame

\* fs.writeFileSync(tempPath, content): one write(2) of the next piece
AwChunk ==
    /\ aw.pc = "write" /\ Len(aw.temp.data) < Len(aw.content)
    /\ aw' = [aw EXCEPT !.temp = File(SubSeq(aw.content, 1, Len(aw.temp.data) + 1))]
    /\ awFrame

\* fs.writeFileSync(tempPath, content): everything written, close
AwClose ==
    /\ aw.pc = "write" /\ Len(aw.temp.data) = Len(aw.content)
    /\ aw' = [aw EXCEPT !.pc = "rename"]
    /\ awFrame

\* fs.writeFileSync(tempPath, content) throws (ENOSPC, EIO): what was
\* written so far stays in the temp file
AwWriteFails ==
    /\ aw.pc = "write"
    /\ aw' = [aw EXCEPT !.pc = "catch"]
    /\ awFrame

\* fs.renameSync(tempPath, filePath)
AwRename ==
    /\ aw.pc = "rename"
    /\ \/ aw' = [aw EXCEPT !.pc = "done", !.target = aw.temp, !.temp = Absent]
       \/ aw' = [aw EXCEPT !.pc = "catch"]
    /\ awFrame

\* the failed step is tried again
AwCatchRetry ==
    /\ aw.pc = "catch"
    /\ \/ aw' = [aw EXCEPT !.pc = "open", !.temp = Absent,
                           !.unlink = IF aw.temp.exists THEN "ok" ELSE "none"]
       \/ aw.temp.exists /\ aw' = [aw EXCEPT !.pc = "threw", !.unlink = "fail"]
    /\ awFrame

\* catch (e): unlink the temp file if it exists, errors of the unlink are
\* swallowed; throw e
AwCatch ==
    /\ aw.pc = "catch"
    /\ \/ aw' = [aw EXCEPT !.pc = "threw", !.temp = Absent,
                           !.unlink = IF aw.temp.exists THEN "ok" ELSE "none"]
       \/ aw.temp.exists /\ aw' = [aw EXCEPT !.pc = "threw", !.unlink = "fail"]
    /\ awFrame

\* the process is killed; the files stay as they are
AwCrash ==
    /\ aw.pc \in {"open", "write", "rename", "catch", "done"}
    /\ aw' = [aw EXCEPT !.pc = "crashed", !.at = aw.pc]
    /\ awFrame

NextAW ==
    \/ AwCall
    \/ AwOpen
    \/ AwChunk
    \/ AwClose
    \/ AwWriteFails
    \/ AwRename
    \/ AwCatch
    \/ AwCrash

SpecAW == InitAW /\ [][NextAW]_vars

(* ---------------- rotateBackups, call after call ---------------- *)
\* the contents a deployment may find in the business file
ArchiveContents == {OldText} \cup {Stringify(CleanConfig(d)) : d \in PayloadDocs}

InitRot ==
    /\ Init
    /\ proxy = File(OldText) /\ sysFile = File(CustomSystemText)

\* rotateBackups(currentContent) returns
Archive ==
    /\ Len(archived) < MaxArchives
    /\ \E c \in ArchiveContents, ts \in Timestamps(backups, sameSec) :
        /\ backups' \in RotateBackups(backups, ts, c)
        /\ archived' = Append(archived, c)
    /\ sameSec' = TRUE
    /\ UNCHANGED <<isDeploying, reqVars, proxy, sysFile, tmpLeft, prior, last, aw, health, crashed, bw, cl, poll>>

\* the clock reaches the next second
SecondPasses ==
    /\ sameSec
    /\ sameSec' = FALSE
    /\ UNCHANGED <<isDeploying, reqVars, fsVars, prior, last, auxVars>>

NextRot ==
    \/ Archive
    \/ SecondPasses

SpecRot == InitRot /\ [][NextRot]_vars

(* ---------------- GET /health beside the deployments ---------------- *)
InitHealth ==
    /\ Init
    /\ proxy = File(OldText) /\ sysFile = File(CustomSystemText)

\* the endpoint answers DOWN while a deployment holds the lock
HealthLockAware ==
    /\ cur = 0
    /\ \E c \in StatusCodes :
        health' = [code |-> c,
                   status |-> IF checkServiceHealth(c) /\ ~isDeploying THEN 200 ELSE 503,
                   during |-> isDeploying]
    /\ UNCHANGED <<mainVars, aw, archived, crashed, bw, cl, poll>>

\* app.get('/health'): checkServiceHealth() ? 200 UP : 503 DOWN
Health ==
    /\ cur = 0
    /\ \E c \in StatusCodes :
        health' = [code |-> c,
                   status |-> IF checkServiceHealth(c) THEN 200 ELSE 503,
                   during |-> isDeploying]
    /\ UNCHANGED <<mainVars, aw, archived, crashed, bw, cl, poll>>

\* the status command of the endpoint never exits: execSync keeps the thread
HealthHangs ==
    /\ cur = 0
    /\ cur' = -1
    /\ health' = [code |-> -1, status |-> 0, during |-> isDeploying]
    /\ UNCHANGED <<isDeploying, pc, rollbackContent, rawConfig, cleanConfig, i, err, rb, resp,
                   trace, fsVars, sameSec, prior, last, aw, archived, crashed, bw, cl, poll>>

NextHealth ==
    \/ Next
    \/ Health
    \/ HealthHangs

SpecHealth == InitHealth /\ [][NextHealth]_vars

(* ---------------- the agent is killed and started again ---------------- *)
\* the request whose deployment holds the lock
Holder == CHOOSE p \in Procs : pc[p] \notin {"idle", "lock", "done"}

\* The process dies during a deployment and is started again: the module is
\* loaded anew (isDeploying = false, no handler, no local variable), the
\* connections are gone, the files are as the kill found them (with the
\* temp file of an atomicWrite it hit), and ensureSystemConfig() runs.
Crash ==
    /\ crashed.n < MaxCrashes
    /\ isDeploying
    /\ crashed' = [n |-> crashed.n + 1, at |-> pc[Holder],
                   verified |-> /\ \E n \in 1..Len(trace[Holder]) :
                                        trace[Holder][n] = <<"check", "ok">>
                                /\ proxy = File(Stringify(cleanConfig[Holder])),
                   deployed |-> NumDeployed]
    /\ isDeploying' = FALSE
    /\ cur' = 0
    /\ pc' = [p \in Procs |-> IF pc[p] = "idle" THEN "idle" ELSE "done"]
    /\ rollbackContent' = [p \in Procs |-> Null]
    /\ rawConfig' = [p \in Procs |-> JsonObj(EmptyObj)]
    /\ cleanConfig' = [p \in Procs |-> EmptyObj]
    /\ i' = [p \in Procs |-> 0]
    /\ err' = [p \in Procs |-> "none"]
    /\ rb' = [p \in Procs |-> "none"]
    /\ trace' = [p \in Procs |-> <<>>]
    /\ last' = [kind |-> "crashed", text |-> <<>>]
    /\ \E hit \in BOOLEAN :
        /\ hit => pc[Holder] \in {"ensure", "apply", "rbwrite"}
        /\ IF sysFile.exists
           THEN sysFile' = sysFile /\ tmpLeft' = (tmpLeft \/ hit)
           ELSE \E o \in AtomicWrite(sysFile, Stringify(DEFAULT_SYSTEM_CONFIG)) :
                    sysFile' = o.file /\ tmpLeft' = (tmpLeft \/ hit \/ o.tmp)
    /\ UNCHANGED <<resp, proxy, backups, sameSec, prior, aw, archived, health, bw, cl, poll>>

NextCrash ==
    \/ Next
    \/ Crash

SpecCrash == Init /\ [][NextCrash]_vars

(* ---------------- the backup write of rotateBackups ---------------- *)
InitBW ==
    /\ Init
    /\ proxy = File(OldText) /\ sysFile = File(CustomSystemText)

bwFrame == UNCHANGED <<mainVars, aw, archived, health, crashed, cl, poll>>

\* rotateBackups(currentContent) is called: backupPath is a new name, or,
\* within the second of the last archive, the name of the backup just written
BwCall ==
    /\ bw.pc \in {"idle", "done", "threw"} /\ bw.n < MaxWrites
    /\ \E c \in ArchiveContents, f \in {Absent, bw.file} :
        bw' = [pc |-> "open", old |-> f, file |-> f, content |-> c, n |-> bw.n + 1]
    /\ bwFrame

\* fs.writeFileSync(backupPath, currentContent): open with O_CREAT | O_TRUNC
BwOpen ==
    /\ bw.pc = "open"
    /\ \/ bw' = [bw EXCEPT !.pc = "write", !.file = File(<<>>)]
       \/ bw' = [bw EXCEPT !.pc = "threw"]
    /\ bwFrame

\* fs.writeFileSync(backupPath, currentContent): one write(2) of the next piece
BwChunk ==
    /\ bw.pc = "write" /\ Len(bw.file.data) < Len(bw.content)
    /\ bw' = [bw EXCEPT !.file = File(SubSeq(bw.content, 1, Len(bw.file.data) + 1))]
    /\ bwFrame

\* fs.writeFileSync(backupPath, currentContent): everything written, close
BwClose ==
    /\ bw.pc = "write" /\ Len(bw.file.data) = Len(bw.content)
    /\ bw' = [bw EXCEPT !.pc = "done"]
    /\ bwFrame

\* fs.writeFileSync(backupPath, currentContent) throws; STEP 3 logs it
BwFails ==
    /\ bw.pc = "write"
    /\ bw' = [bw EXCEPT !.pc = "threw"]
    /\ bwFrame

\* the process is killed; the file stays as it is
BwCrash ==
    /\ bw.pc \in {"open", "write"}
    /\ bw' = [bw EXCEPT !.pc = "crashed"]
    /\ bwFrame

NextBW ==
    \/ BwCall
    \/ BwOpen
    \/ BwChunk
    \/ BwClose
    \/ BwFails
    \/ BwCrash

SpecBW == InitBW /\ [][NextBW]_vars

(* ---------------- the client plug-in: loadDependence ---------------- *)
\* loadDependence may run this many times (onInstall, onReady, Deploy)
MaxLoads == 2

\* what ReadFile can hand back for the library file: the library, or text
\* that does not define window.CryptoJS
LibTexts == {"lib", "junk"}

\* one tick of the interval, the rejection tested first
PollTickRejectFirst(lib, counter) ==
    [out     |-> IF counter > 20 THEN "rejected" ELSE IF lib THEN "resolved" ELSE "none",
     timer   |-> ~(lib \/ counter > 20),
     counter |-> counter + 1]

\* one tick of the interval: the library is there, clearInterval and
\* resolve; else counter > 20, clearInterval and reject; counter++ always
PollTick(lib, counter) ==
    [out     |-> IF lib THEN "resolved" ELSE IF counter > 20 THEN "rejected" ELSE "none",
     timer   |-> ~(lib \/ counter > 20),
     counter |-> counter + 1]

InitPoll ==
    /\ Init
    /\ proxy = File(OldText) /\ sysFile = File(CustomSystemText)

pollFrame == UNCHANGED <<mainVars, aw, archived, health, crashed, bw, cl>>

\* loadDependence() is called: with window.CryptoJS defined it returns at once
LdCall ==
    /\ poll.pc \in {"idle", "done", "threw"} /\ poll.n < MaxLoads
    /\ poll' = [poll EXCEPT !.pc = IF poll.lib THEN "done" ELSE "read",
                            !.out = IF poll.lib THEN "returned" ELSE "none",
                            !.text = "none", !.dl = FALSE, !.counter = 0, !.timer = FALSE,
                            !.n = poll.n + 1]
    /\ pollFrame

\* Plugins.ReadFile(JS_FILE).catch(() => null): a text, or nothing to read
LdRead ==
    /\ poll.pc = "read"
    /\ \/ \E t \in LibTexts : poll' = [poll EXCEPT !.pc = "inject", !.text = t]
       \/ poll' = [poll EXCEPT !.pc = "download"]
    /\ pollFrame

\* Plugins.Download succeeds, or throws into the catch, which throws on
LdDownload ==
    /\ poll.pc = "download"
    /\ \/ poll' = [poll EXCEPT !.pc = "reread", !.dl = TRUE]
       \/ poll' = [poll EXCEPT !.pc = "threw", !.out = "threw"]
    /\ pollFrame

\* the second ReadFile, without a catch of its own
LdReread ==
    /\ poll.pc = "reread"
    /\ \/ \E t \in LibTexts : poll' = [poll EXCEPT !.pc = "inject", !.text = t]
       \/ poll' = [poll EXCEPT !.pc = "threw", !.out = "threw"]
    /\ pollFrame

\* the script element is appended, which runs the text at once, and the
\* interval is started with counter = 0
LdInject ==
    /\ poll.pc = "inject"
    /\ poll' = [poll EXCEPT !.pc = "poll", !.lib = (poll.text = "lib"),
                            !.counter = 0, !.timer = TRUE]
    /\ pollFrame

\* window.CryptoJS becomes defined between two ticks
LibAppears ==
    /\ poll.pc = "poll" /\ ~poll.lib
    /\ poll' = [poll EXCEPT !.lib = TRUE]
    /\ pollFrame

\* the interval fires; a resolved promise lets loadDependence return, a
\* rejected one goes through the catch, which throws
LdTick ==
    /\ poll.pc = "poll" /\ poll.timer
    /\ LET t == PollTick(poll.lib, poll.counter)
       IN  poll' = [poll EXCEPT !.counter = t.counter, !.timer = t.timer, !.out = t.out,
                                !.pc = CASE t.out = "resolved" -> "done"
                                         [] t.out = "rejected" -> "threw"
                                         [] OTHER -> "poll"]
    /\ pollFrame

NextPoll ==
    \/ LdCall
    \/ LdRead
    \/ LdDownload
    \/ LdReread
    \/ LdInject
    \/ LibAppears
    \/ LdTick

SpecPoll == InitPoll /\ [][NextPoll]_vars

\* the timers of the page fire as long as they are set
FairSpecPoll == SpecPoll /\ WF_vars(LdTick)

(* ---------------- the client plug-in: Deploy ---------------- *)
\* loadDependence returned after the first tick saw the library
PollLoaded == [pc |-> "done", lib |-> TRUE, text |-> "lib", dl |-> FALSE, counter |-> 1,
               timer |-> FALSE, out |-> "resolved", n |-> 1]
\* loadDependence threw after the download failed
PollThrew == [pc |-> "threw", lib |-> FALSE, text |-> "none", dl |-> FALSE, counter |-> 0,
              timer |-> FALSE, out |-> "threw", n |-> 1]

\* the notification for an answer, every answer below 500 taken as success
ClientShowsBelow500(status) == IF status < 500 THEN "success" ELSE "error"

\* the notification for an answer: status !== 200 throws into the catch
\* block, which calls error(); otherwise success() is called
ClientShows(status) == IF status # 200 THEN "error" ELSE "success"

InitClient ==
    /\ Init!1 /\ Init!2 /\ Init!3 /\ Init!4 /\ Init!5 /\ Init!6 /\ Init!7 /\ Init!8
    /\ Init!9 /\ Init!10 /\ Init!11
    /\ proxy \in InitialProxyFiles /\ sysFile = File(CustomSystemText)
    /\ tmpLeft = FALSE /\ backups = <<>> /\ sameSec = FALSE /\ prior = proxy /\ last = NoLast
    /\ aw = AwIdle(Absent)
    /\ archived = <<>>
    /\ health = NoHealth
    /\ crashed = NoCrash
    /\ bw = BwIdle
    /\ cl = ClIdle
    /\ poll \in {PollLoaded, PollThrew}

clFrame == UNCHANGED <<mainVars, aw, archived, health, crashed, bw, poll>>

\* Deploy(profile) up to the notification: loadDependence threw and Deploy
\* rejects before any notification exists, or the library is there, the
\* settings fall back to DEFAULT_CONFIG, and Plugins.message.info shows the
\* progress notification
ClStart ==
    /\ cl.pc = "idle"
    /\ IF poll.pc = "threw" \/ ~poll.lib
       THEN cl' = [cl EXCEPT !.pc = "rejected"]
       ELSE cl' = [cl EXCEPT !.pc = "gen", !.note = "info"]
    /\ clFrame

\* Plugins.generateConfig and the encryption: done, or thrown into the catch
\* block, which calls error()
ClGenerate ==
    /\ cl.pc = "gen"
    /\ \/ cl' = [cl EXCEPT !.pc = "post"]
       \/ cl' = [cl EXCEPT !.pc = "sleep", !.note = "error"]
    /\ clFrame

\* Plugins.HttpPost sends the request: it is the next one the server sees
ClPost ==
    /\ cl.pc = "post"
    /\ \E p \in Procs :
        /\ pc[p] = "idle" /\ \A q \in Procs : q < p => pc[q] # "idle"
        /\ cl' = [cl EXCEPT !.pc = "wait", !.req = p]
    /\ clFrame

\* the answer arrives: success() on 200, else the throw and error()
ClReceive ==
    /\ cl.pc = "wait" /\ resp[cl.req] # 0
    /\ cl' = [cl EXCEPT !.pc = "sleep", !.status = resp[cl.req],
                        !.note = ClientShows(resp[cl.req])]
    /\ clFrame

\* Plugins.HttpPost throws (no connection, timeout): error()
ClNetError ==
    /\ cl.pc = "wait"
    /\ cl' = [cl EXCEPT !.pc = "sleep", !.note = "error"]
    /\ clFrame

\* finally: Plugins.sleep(2000).then(() => destroy())
ClDestroy ==
    /\ cl.pc = "sleep"
    /\ cl' = [cl EXCEPT !.pc = "done", !.destroyed = TRUE]
    /\ clFrame

NextClient ==
    \/ Next
    \/ ClStart
    \/ ClGenerate
    \/ ClPost
    \/ ClReceive
    \/ ClNetError
    \/ ClDestroy

SpecClient == InitClient /\ [][NextClient]_vars

(* ======================= claims ======================= *)

\* positions between the acquisition of the lock and its release
LockedPcs == {"ensure", "parse", "sanitize", "backup", "apply", "check", "restart", "delay",
              "probe", "interval", "respond", "rbwrite", "rbrestart", "rbwait", "rbprobe",
              "cleanup", "fail", "finally", "hung"}
InFlight(p) == pc[p] \in LockedPcs

\* C1: at most one request is between lock acquisition and lock release, the
\* flag is set while it is, and only that request has done file operations
\* or commands, also while it is suspended in a wait.
C1_SingleFlight ==
    /\ \A p, q \in Procs : (InFlight(p) /\ InFlight(q)) => p = q
    /\ \A p \in Procs : InFlight(p) => isDeploying
    /\ \A p \in Procs : trace[p] # <<>> => InFlight(p)

\* C1 witness: a second request was turned away while the first one is
\* suspended in a wait between two health probes
C1_Witness ==
    \E p, q \in Procs : pc[p] = "interval" /\ pc[q] = "done" /\ resp[q] = 429


\* the deployment of p has run its try and catch blocks and sent its response
Ended(p) == pc[p] = "finally"
Has(p, ev) == \E n \in 1..Len(trace[p]) : trace[p][n] = ev
HasCmd(p, name) == \E n \in 1..Len(trace[p]) : trace[p][n][1] = name

C3_Original ==
    \A p \in Procs :
        (Ended(p) /\ err[p] \in {"check", "restart", "probe"} /\ prior.exists) => proxy = prior

\* C4 as stated: a request with an empty, undecryptable or unparsable payload
\* ends in a failure response with the business file and the backups as they
\* were, and without any verification or restart command.
C4_Original ==
    \A p \in Procs :
        (Ended(p) /\ err[p] = "payload") =>
            /\ resp[p] = 500
            /\ proxy = prior
            /\ ~HasCmd(p, "archive")
            /\ ~HasCmd(p, "check") /\ ~HasCmd(p, "restart") /\ ~HasCmd(p, "rbrestart")

C5_Original == \A p \in Procs : InFlight(p) ~> (~isDeploying /\ pc[p] = "done")

\* C6: an authorized request that finds the lock held is answered 429 at once
\* and changes nothing: no file, no backup, no command, no local of any
\* request, and the lock stays held.
C6_BusyChangesNothing ==
    [][\A p \in Procs :
        (pc[p] = "lock" /\ isDeploying /\ pc'[p] # "lock") =>
            /\ pc'[p] = "done" /\ resp'[p] = 429
            /\ isDeploying'
            /\ \A q \in Procs : q # p => pc'[q] = pc[q] /\ resp'[q] = resp[q]
            /\ UNCHANGED <<fsVars, trace, rollbackContent, rawConfig, cleanConfig, i, err, rb,
                           sameSec, prior, last>>]_vars

\* C6 witness: a request was answered 429 while the deployment in flight is
\* waiting for its check after a rollback
C6_Witness ==
    \E p, q \in Procs : pc[p] = "rbwait" /\ isDeploying /\ pc[q] = "done" /\ resp[q] = 429

\* C8: the text a deployment applies to the business file has keys only from
\* {dns, outbounds, route, ntp}, whatever keys the decoded document has.
C8_OnlyBusinessKeys ==
    \A p \in Procs :
        pc[p] = "check" =>
            /\ proxy = File(Stringify(cleanConfig[p]))
            /\ KeysOf(proxy.data) \subseteq BusinessKeys
            /\ KeysOf(proxy.data) \cap (AllKeys \ BusinessKeys) = {}

\* C8 witness: a document with every protected key and a foreign key was
\* applied, and the file has the four business keys
C8_Witness ==
    \E p \in Procs :
        /\ pc[p] = "check"
        /\ OtherKeys \subseteq DOMAIN rawConfig[p].doc
        /\ KeysOf(proxy.data) = BusinessKeys

\* the forward-path commands of p, in order
Cmds(p) == SelectSeq(trace[p], LAMBDA e : e[1] \in {"check", "restart"})
InCatch(p) == pc[p] \in {"rbwrite", "rbrestart", "rbwait", "rbprobe", "cleanup", "fail", "finally", "hung"}

\* C9: the forward restart is issued only after the verification of the newly
\* applied file succeeded; a failed or timed-out verification is followed by
\* no forward restart and by the catch block, and so is a failed restart; a
\* restart in the catch block finds the prior content on disk again.
C9_RestartAfterCheck ==
    /\ [](\A p \in Procs :
            /\ Len(Cmds(p)) <= 2
            /\ Len(Cmds(p)) >= 1 => Cmds(p)[1][1] = "check"
            /\ Len(Cmds(p)) = 2 => Cmds(p) [1] = <<"check", "ok">> /\ Cmds(p)[2][1] = "restart"
            /\ Has(p, <<"check", "fail">>) => (~HasCmd(p, "restart") /\ InCatch(p) /\ err[p] = "check")
            /\ Has(p, <<"restart", "fail">>) => (InCatch(p) /\ err[p] = "restart")
            /\ \A n \in 1..Len(trace[p]) :
                 trace[p][n][1] = "restart" => (n > 1 /\ trace[p][n - 1] = <<"check", "ok">>))
    /\ [][\A p \in Procs :
            (pc[p] = "rbrestart" /\ pc'[p] # "rbrestart") =>
                proxy = File(rollbackContent[p].data)]_vars

\* C9 witness: the verification failed, no restart was issued and the
\* catch block is about to re-apply the prior content
C9_Witness ==
    \E p \in Procs : pc[p] = "rbwrite" /\ err[p] = "check" /\ ~HasCmd(p, "restart")

\* the answers of the health monitor's probes of p, in order
Probes(p) == SelectSeq(trace[p], LAMBDA e : e[1] = "probe")
MonitorSucceeded(p) == pc[p] = "respond" \/ (pc[p] = "finally" /\ resp[p] = 200)

\* C10: the monitor makes at most CHECK_COUNT probes, succeeds exactly when
\* CHECK_COUNT probes answered running, and fails at the first probe that
\* did not, which is then its last probe.
C10_HealthMonitor ==
    \A p \in Procs :
        LET ps == Probes(p) IN
        /\ Len(ps) <= CHECK_COUNT
        /\ MonitorSucceeded(p) <=>
              (Len(ps) = CHECK_COUNT /\ \A n \in 1..Len(ps) : ps[n][2] = "up")
        /\ \A n \in 1..Len(ps) : ps[n][2] = "down" => (n = Len(ps) /\ err[p] = "probe")
        /\ err[p] = "probe" => (Len(ps) >= 1 /\ ps[Len(ps)][2] = "down")

\* C10 witness: the monitor succeeded after CHECK_COUNT probes
C10_Witness ==
    \E p \in Procs : pc[p] = "respond" /\ Len(Probes(p)) = CHECK_COUNT

\* what the catch block of p did, in order
RbEvents(p) == SelectSeq(trace[p], LAMBDA e : e[1] \in {"rbwrite", "rbrestart", "rbprobe"})
\* position in trace[p] of the first catch-block event (0 if none)
FirstRb(p) ==
    IF \E n \in 1..Len(trace[p]) : trace[p][n][1] \in {"rbwrite", "unlink"}
    THEN CHOOSE n \in 1..Len(trace[p]) :
            /\ trace[p][n][1] \in {"rbwrite", "unlink"}
            /\ \A m \in 1..(n - 1) : trace[p][m][1] \notin {"rbwrite", "unlink"}
    ELSE 0

\* C11 as stated: a rollback with a RollbackContext re-applies the prior
\* content, then issues exactly one restart, then makes exactly one probe;
\* it is Recovered exactly when the probe reports running and
\* FatalInconsistent otherwise.
C11_Original ==
    \A p \in Procs :
        (Ended(p) /\ HasCmd(p, "rbwrite")) =>
            LET r == RbEvents(p) IN
            /\ Len(r) = 3
            /\ r[1][1] = "rbwrite" /\ r[2][1] = "rbrestart" /\ r[3][1] = "rbprobe"
            /\ rb[p] = "recovered" <=> r[3][2] = "up"
            /\ rb[p] = "fatal" <=> r[3][2] # "up"

\* C11 amended: the catch block re-applies the prior content, restarts only
\* if the re-apply succeeded, and waits and probes only if the restart
\* succeeded, each at most once and in that order, with no forward step
\* after it; Recovered exactly when the probe reports running, Fatal exactly
\* when it reports not running, neither when the re-apply or the restart
\* threw.
C11_RollbackSequence ==
    \A p \in Procs :
        LET r == RbEvents(p) IN
        /\ Len(r) <= 3
        /\ Len(r) >= 1 => (r[1][1] = "rbwrite" /\ Truthy(rollbackContent[p]) /\ err[p] # "none")
        /\ Len(r) >= 2 => (r[1] = <<"rbwrite", "ok">> /\ r[2][1] = "rbrestart")
        /\ Len(r) = 3 => (r[2] = <<"rbrestart", "ok">> /\ r[3][1] = "rbprobe"
                          /\ trace[p][Len(trace[p])] = r[3]
                          /\ trace[p][Len(trace[p]) - 1] = <<"wait", "rbwait">>
                          /\ trace[p][Len(trace[p]) - 2] = r[2])
        /\ (Len(trace[p]) > 0 /\ trace[p][Len(trace[p])] = <<"rbwrite", "ok">>) =>
                proxy = File(rollbackContent[p].data)
        /\ FirstRb(p) > 0 =>
                \A n \in FirstRb(p)..Len(trace[p]) :
                    trace[p][n][1] \in {"rbwrite", "rbrestart", "rbprobe", "unlink", "wait"}
        /\ rb[p] = "recovered" <=> (Len(r) = 3 /\ r[3][2] = "up")
        /\ rb[p] = "fatal" <=> (Len(r) = 3 /\ r[3][2] = "down")
        /\ rb[p] = "writefailed" <=> (Len(r) = 1 /\ r[1][2] = "fail")
        /\ rb[p] = "restartfailed" <=> (Len(r) = 2 /\ r[2][2] = "fail")

\* C11 witness: a rollback re-applied, restarted, probed once and recovered
C11_Witness ==
    \E p \in Procs :
        /\ Ended(p) /\ rb[p] = "recovered" /\ proxy = prior
        /\ RbEvents(p) = <<<<"rbwrite", "ok">>, <<"rbrestart", "ok">>, <<"rbprobe", "up">>>>

\* C15 as stated: every external command runs under the timeout bound and
\* ends as success, NonZeroExit or Timeout, so no command blocks the agent,
\* and a deployment holding the lock, for ever.
C15_Original == \A p \in Procs : pc[p] # "hung"

\* a request has its response
Answered(p) == resp[p] # 0

\* C16 as stated: every /deploy request gets exactly one response; a
\* deployment that took the lock gets it after its whole sequence, rollback
\* included; 200 only after success, 500 after a rollback of either outcome.
C16_Original ==
    /\ \A p \in Procs : (pc[p] # "idle") ~> Answered(p)
    /\ [](\A p \in Procs :
            /\ Answered(p) => pc[p] \in {"finally", "done"}
            /\ (Ended(p) /\ resp[p] = 200) => (err[p] = "none" /\ rb[p] = "none")
            /\ (Ended(p) /\ rb[p] \in {"recovered", "fatal"}) => resp[p] = 500)
    /\ [][\A p \in Procs : Answered(p) => resp'[p] = resp[p]]_vars

\* the forward steps of p all succeeded
AllStepsSucceeded(p) ==
    /\ Has(p, <<"sanitize", "ok">>)
    /\ Has(p, <<"apply", "ok">>)
    /\ Has(p, <<"check", "ok">>)
    /\ Has(p, <<"restart", "ok">>)
    /\ Len(Probes(p)) = CHECK_COUNT
    /\ \A n \in 1..Len(Probes(p)) : Probes(p)[n][2] = "up"

\* C17: a deployment answers 200 exactly when sanitization, apply,
\* verification, restart and all CHECK_COUNT probes succeeded; then the
\* business file is the serialized sanitized document, nothing of the catch
\* block ran, and with no business file beforehand nothing was archived (no
\* backup at all after a first-ever deployment).
C17_SuccessExactly ==
    \A p \in Procs : Ended(p) =>
        /\ resp[p] \in {200, 500}
        /\ resp[p] = 200 <=> AllStepsSucceeded(p)
        /\ resp[p] = 200 =>
              /\ proxy = File(Stringify(cleanConfig[p]))
              /\ err[p] = "none" /\ rb[p] = "none"
              /\ \A n \in 1..Len(trace[p]) :
                   trace[p][n][1] \notin {"rbwrite", "rbrestart", "rbprobe", "unlink"}
              /\ ~prior.exists => (~HasCmd(p, "archive") /\ rollbackContent[p] = Null)
              /\ (~prior.exists /\ last = NoLast) => backups = <<>>

\* a first-ever deployment succeeded
C17_Witness ==
    \E p \in Procs :
        /\ Ended(p) /\ resp[p] = 200
        /\ ~prior.exists /\ last = NoLast
        /\ proxy.exists /\ KeysOf(proxy.data) = BusinessKeys

\* C18: a request with a wrong or missing token is answered 401 as the first
\* thing: that step changes nothing but the request itself (lock, files,
\* backups, command log and every other request stay as they are), also
\* while a deployment is in flight; 429 is given only to requests that
\* passed the token test.
C18_UnauthorizedFirst ==
    [][\A p \in Procs :
          /\ (resp[p] = 0 /\ resp'[p] = 401) =>
                /\ pc[p] = "idle" /\ pc'[p] = "done"
                /\ UNCHANGED <<isDeploying, cur, rollbackContent, rawConfig, cleanConfig, i,
                               err, rb, trace, fsVars, sameSec, prior, last>>
                /\ \A q \in Procs \ {p} : pc'[q] = pc[q] /\ resp'[q] = resp[q]
          /\ (pc[p] = "idle" /\ pc'[p] # "idle") => (pc'[p] = "lock" \/ resp'[p] = 401)
          /\ (resp[p] = 0 /\ resp'[p] = 429) => pc[p] = "lock"]_vars

\* a later request was answered 401 while an earlier one is suspended in its
\* health monitor, holding the lock
C18_Witness ==
    \E p, q \in Procs :
        /\ q < p /\ resp[p] = 401 /\ pc[p] = "done"
        /\ isDeploying /\ pc[q] \in {"delay", "interval"}

\* C20: no step modifies or deletes an existing system file; the file is
\* written only when it is absent, and then with DEFAULT_SYSTEM_CONFIG.
C20_SystemFileFrame ==
    [][/\ sysFile.exists => sysFile' = sysFile
       /\ sysFile' # sysFile =>
             (/\ sysFile' = File(Stringify(DEFAULT_SYSTEM_CONFIG))
              /\ \E p \in Procs : pc[p] = "ensure" /\ cur = p)]_vars

\* a deployment that was rolled back has ended and the operator's system
\* file is still in place
C20_Witness ==
    \E p \in Procs :
        /\ Ended(p) /\ rb[p] = "recovered"
        /\ sysFile = File(CustomSystemText)

\* C12: at every point of an atomicWrite call, a crash included, the target
\* holds its complete previous content (or is absent) or the complete new
\* content; up to the rename, and after a crash or an error before it, the
\* target is unchanged; the call ends as the one-step AtomicWrite says.
C12_AtomicApply ==
    /\ aw.target \in {aw.old, File(aw.content)}
    /\ aw.pc \in {"open", "write", "rename", "catch", "threw"} => aw.target = aw.old
    /\ (aw.pc = "crashed" /\ aw.at # "done") => aw.target = aw.old
    /\ (aw.pc = "done" \/ (aw.pc = "crashed" /\ aw.at = "done")) =>
            (aw.target = File(aw.content) /\ ~aw.temp.exists)
    /\ aw.pc \in {"done", "threw"} =>
            [ok |-> aw.pc = "done", file |-> aw.target, tmp |-> aw.temp.exists]
                \in AtomicWrite(aw.old, aw.content)

\* killed between the temp write and the rename, over an existing file
C12_Witness ==
    /\ aw.pc = "crashed" /\ aw.at = "rename"
    /\ aw.temp = File(aw.content) /\ Len(aw.content) > 1
    /\ aw.old.exists /\ aw.old.data # aw.content
    /\ aw.target = aw.old

\* C13 as stated: from an empty backup directory, after MAX_BACKUPS + k
\* archive operations exactly MAX_BACKUPS backups remain and they hold the
\* MAX_BACKUPS most recently archived contents.
C13_Original ==
    Len(archived) >= MAX_BACKUPS =>
        /\ Len(backups) = MAX_BACKUPS
        /\ \A n \in 1..MAX_BACKUPS :
             backups[n].data = archived[Len(archived) - MAX_BACKUPS + n]

BackupNames(bk) == {bk[n].name : n \in 1..Len(bk)}

\* C14 as stated: every archive creates its backup under a name that no
\* existing backup has, whatever the timing, and a backup's content never
\* changes as long as the backup exists.
C14_Original ==
    [][/\ backups' # backups =>
             (Len(backups') > 0 /\ backups'[Len(backups')].name \notin BackupNames(backups))
       /\ \A n \in 1..Len(backups), m \in 1..Len(backups') :
             backups'[m].name = backups[n].name => backups'[m].data = backups[n].data]_vars

\* C19: whenever the thread is free, also with the lock taken and a
\* deployment suspended at a wait, GET /health can be served, and for each
\* exit code of the status command its answer is the same in all these
\* states: 200 for exit code 0, 503 for any other; serving it changes
\* neither the lock, nor a file, nor any request.
C19_HealthIndependent ==
    /\ [](cur = 0 =>
            \A c \in StatusCodes :
                ENABLED (Health /\ health'.code = c
                                /\ health'.status = IF c = 0 THEN 200 ELSE 503))
    /\ [][health' # health =>
            /\ cur = 0
            /\ UNCHANGED <<isDeploying, pc, rollbackContent, rawConfig, cleanConfig, i, err, rb,
                           resp, trace, fsVars, sameSec, prior, last>>
            /\ health'.code \in StatusCodes =>
                  (cur' = cur /\ health'.status = IF health'.code = 0 THEN 200 ELSE 503)]_vars

\* UP was answered while a deployment, suspended at a wait of its health
\* monitor, held the lock
C19_Witness ==
    /\ health.during /\ health.status = 200
    /\ isDeploying /\ \E p \in Procs : pc[p] \in {"delay", "interval"}

\* the empty mapping or sequence a business key defaults to
DefaultOf(k) == IF k = "outbounds" THEN "[]" ELSE "{}"
\* the key is in the decoded document with a value other than null
Present(doc, k) == Get(doc, k) \notin {"undefined", "null"}

\* C21 as stated: the sanitized document has dns, outbounds and route, each
\* with the input's value when the input has one and with the empty mapping
\* or sequence otherwise; it has ntp exactly when the input's ntp is present
\* and not null; no key is serialized with a null or absent value.
C21_Original ==
    \A p \in Procs :
        Has(p, <<"sanitize", "ok">>) =>
            LET raw == rawConfig[p].doc
                clean == cleanConfig[p]
            IN /\ \A k \in {"dns", "outbounds", "route"} :
                    /\ k \in DOMAIN clean
                    /\ clean[k] = IF Present(raw, k) THEN raw[k] ELSE DefaultOf(k)
               /\ "ntp" \in DOMAIN clean <=> Present(raw, "ntp")
               /\ "ntp" \in DOMAIN clean => clean["ntp"] = raw["ntp"]
               /\ \A n \in 1..Len(Stringify(clean)) :
                    Stringify(clean)[n][2] \notin {"null", "undefined"}

\* C22: when the temp write or the rename of atomicWrite fails, the call
\* throws with the target as it was; the temp file is gone unless its
\* unlink failed; the failed step is not tried again: from the catch block
\* the call only ends, and nothing is written after it.
C22_WriteFailure ==
    /\ [](aw.pc \in {"catch", "threw"} => aw.target = aw.old)
    /\ [](aw.pc = "threw" =>
            /\ aw.temp.exists <=> aw.unlink = "fail"
            /\ [ok |-> FALSE, file |-> aw.target, tmp |-> aw.unlink = "fail"]
                  \in AtomicWrite(aw.old, aw.content))
    /\ [][/\ aw.pc = "catch" =>
               (aw'.pc \in {"threw", "crashed"} /\ aw'.target = aw.target /\ aw'.n = aw.n)
          /\ (aw.pc = "threw" /\ aw'.pc # "threw") => aw'.n = aw.n + 1
          /\ (aw.pc \in {"write", "rename"} /\ aw'.pc = "catch") => aw'.temp = aw.temp]_vars

\* a write over an existing file failed, the temp file was unlinked and the
\* call threw
C22_Witness ==
    /\ aw.pc = "threw" /\ aw.unlink = "ok" /\ ~aw.temp.exists
    /\ aw.old.exists /\ aw.old.data # aw.content /\ aw.target = aw.old

\* C23: STEP 3 always hands over to the atomic apply, whether the read, the
\* archive or the pruning failed; none of these failures is the error of the
\* deployment; an archive that wrote its backup leaves it as the newest one
\* also when the pruning failed (more than MAX_BACKUPS backups stay).
C23_BackupNeverFatal ==
    /\ [][\A p \in Procs :
            (pc[p] = "backup" /\ pc'[p] # "backup") =>
                /\ pc'[p] = "apply" /\ err'[p] = "none" /\ proxy' = proxy
                /\ backups' # backups =>
                      /\ Len(backups') > 0
                      /\ backups'[Len(backups')].data = rollbackContent'[p].data
                      /\ rollbackContent'[p] = Str(proxy.data)]_vars
    /\ [](\A p \in Procs :
            (Has(p, <<"read", "fail">>) \/ Has(p, <<"archive", "fail">>)
                \/ (Has(p, <<"archive", "ok">>) /\ Len(backups) > MAX_BACKUPS)) =>
                /\ pc[p] = "apply" \/ HasCmd(p, "apply")
                /\ err[p] \notin {"backup", "ensure", "payload", "sanitize"})

\* the pruning failed, the new backup is there and the deployment went on
\* to verify the file it applied
C23_Witness ==
    \E p \in Procs :
        /\ pc[p] = "check" /\ Has(p, <<"archive", "ok">>)
        /\ Len(backups) > MAX_BACKUPS
        /\ backups[Len(backups)].data = rollbackContent[p].data

\* the files the agent has on disk, by path
BackupPaths == {backupPath(backups[n].name) : n \in 1..Len(backups)}
FilesOnDisk ==
    (IF proxy.exists THEN {targetPath} ELSE {})
    \cup (IF sysFile.exists THEN {sysPath} ELSE {})
    \cup (IF tmpLeft THEN {tempPath} ELSE {})
    \cup BackupPaths
\* what readdir of BASE_DIR would list
ConfDir == {f \in FilesOnDisk : Under(f, BASE_DIR)}

C25_Original ==
    \A p \in Procs :
        Ended(p) =>
            /\ rollbackContent[p].null <=> ~prior.exists
            /\ (err[p] # "none" /\ prior.exists) => (proxy.exists /\ proxy = prior)

\* C28 as stated: when the atomic apply of the new document fails, no
\* verification is run, the response is the failure response and at the end
\* of the deployment the business file holds its prior content, or is still
\* absent.
C28_Original ==
    \A p \in Procs :
        (Ended(p) /\ err[p] = "apply") =>
            /\ ~HasCmd(p, "check") /\ ~HasCmd(p, "restart")
            /\ resp[p] = 500
            /\ proxy = prior

\* what p did before its catch block, in order
Forward(p) == IF FirstRb(p) = 0 THEN trace[p] ELSE SubSeq(trace[p], 1, FirstRb(p) - 1)
\* the step of the deployment sequence an event belongs to
StepRank(e) ==
    CASE e[1] = "payload" -> 0
      [] e[1] = "sanitize" -> 1
      [] e[1] \in {"read", "archive"} -> 2
      [] e[1] = "apply" -> 3
      [] e[1] = "check" -> 4
      [] e[1] = "restart" -> 5
      [] OTHER -> 6

\* C26: the forward steps of a deployment come in the order sanitize,
\* backup, apply, verify, restart, monitor, each at most once and each right
\* after the previous one succeeded (the backup step may fail and is left
\* out when there is no file); the business file is as the deployment found
\* it until the apply step, by then the file that existed was read and
\* archived (or that failed), and after an archive that succeeded the
\* newest backup holds rollbackContent, the content found.
C26_StepOrder ==
    \A p \in Procs :
        LET f == Forward(p) IN
        /\ \A m, n \in 1..Len(f) : m < n => StepRank(f[m]) <= StepRank(f[n])
        /\ \A m, n \in 1..Len(f) : (m < n /\ StepRank(f[m]) < 6) => StepRank(f[m]) < StepRank(f[n])
        /\ \A n \in 1..Len(f) :
             /\ StepRank(f[n]) = 1 => (n > 1 /\ f[n - 1] = <<"payload", "ok">>)
             /\ StepRank(f[n]) = 2 => (n > 1 /\ f[n - 1] = <<"sanitize", "ok">> /\ prior.exists)
             /\ StepRank(f[n]) = 3 =>
                  (n > 1 /\ f[n - 1] \in {<<"sanitize", "ok">>, <<"read", "fail">>,
                                          <<"archive", "ok">>, <<"archive", "fail">>})
             /\ StepRank(f[n]) = 4 => (n > 1 /\ f[n - 1] = <<"apply", "ok">>)
             /\ StepRank(f[n]) = 5 => (n > 1 /\ f[n - 1] = <<"check", "ok">>)
             /\ (StepRank(f[n]) = 6 /\ n > 1 /\ StepRank(f[n - 1]) < 6) =>
                  f[n - 1] = <<"restart", "ok">>
        /\ (prior.exists /\ HasCmd(p, "apply")) => (HasCmd(p, "read") \/ HasCmd(p, "archive"))
        /\ pc[p] \in {"sanitize", "backup", "apply"} => proxy = prior
        /\ HasCmd(p, "archive") => rollbackContent[p] = Str(prior.data)
        /\ (pc[p] = "apply" /\ Has(p, <<"archive", "ok">>)) =>
             (Len(backups) > 0 /\ backups[Len(backups)].data = rollbackContent[p].data)

\* the old file was archived and replaced, and the new one passed all steps
C26_Witness ==
    \E p \in Procs :
        /\ pc[p] = "respond" /\ prior = File(OldText) /\ proxy # prior
        /\ Has(p, <<"archive", "ok">>) /\ rollbackContent[p] = Str(OldText)
        /\ backups[Len(backups)].data = OldText

\* positions of the handler from STEP 1 to the success response
ForwardPcs == {"parse", "sanitize", "backup", "apply", "check", "restart", "delay", "probe",
               "interval", "respond"}

\* C30: the business file is written only while the system file exists;
\* the system file is looked for, and generated, with the lock held and
\* before the payload is looked at; a deployment that cannot generate it
\* fails without decoding or applying anything.
C30_SystemFileFirst ==
    /\ [][(proxy'.exists /\ proxy' # proxy) => sysFile.exists]_vars
    /\ [](\A p \in Procs :
            /\ pc[p] = "ensure" => (isDeploying /\ trace[p] = <<>>)
            /\ pc[p] \in ForwardPcs => sysFile.exists
            /\ err[p] = "ensure" =>
                  /\ ~sysFile.exists
                  /\ ~HasCmd(p, "payload") /\ ~HasCmd(p, "apply") /\ ~HasCmd(p, "rbwrite")
                  /\ Ended(p) => resp[p] = 500)

\* a deployment generated the missing system file and then applied its
\* document
C30_Witness ==
    \E p \in Procs :
        /\ pc[p] = "check" /\ Has(p, <<"apply", "ok">>)
        /\ sysFile = File(Stringify(DEFAULT_SYSTEM_CONFIG))

\* C27 as stated: after a kill of the agent during a deployment and its
\* restart, the agent is idle and the business file is absent, or as the
\* deployment found it, or a document that passed the syntax verification.
C27_Original ==
    (crashed.n > 0 /\ NumDeployed = crashed.deployed) =>
        /\ ~isDeploying
        /\ \/ ~proxy.exists
           \/ proxy = prior
           \/ crashed.verified

\* C29 as stated: a backup is written through a temp file and a rename, so
\* a kill during the write leaves the backup path without a partially
\* written file: it holds what it held before, or the complete content.
C29_Original ==
    bw.pc = "crashed" => bw.file \in {bw.old, File(bw.content)}

\* p read and archived the file it found
Archived(p) == Has(p, <<"archive", "ok">>)
NewestBackup == backups[Len(backups)]

\* C31 as stated: a deployment that succeeds over an existing business file
\* leaves a backup holding the replaced content; a deployment that starts
\* without a business file creates no backup.
C31_Original ==
    \A p \in Procs :
        /\ (Ended(p) /\ resp[p] = 200 /\ prior.exists) =>
              (Archived(p) /\ Len(backups) > 0 /\ NewestBackup.data = prior.data)
        /\ (Ended(p) /\ ~prior.exists) => ~HasCmd(p, "archive")

\* C31 amended: the same for a deployment whose read and archive of the
\* existing file did not fail: its backup is the newest one, also after the
\* pruning; backups are written by STEP 3 over an existing file only.
C31_BackupOfReplaced ==
    /\ [](\A p \in Procs :
            /\ (Ended(p) /\ resp[p] = 200 /\ prior.exists
                  /\ ~Has(p, <<"read", "fail">>) /\ ~Has(p, <<"archive", "fail">>)) =>
                  (Archived(p) /\ Len(backups) > 0 /\ NewestBackup.data = prior.data)
            /\ (Ended(p) /\ ~prior.exists) => ~HasCmd(p, "archive"))
    /\ [][backups' # backups =>
            \E p \in Procs : pc[p] = "backup" /\ cur = p /\ proxy.exists /\ prior = proxy]_vars

\* a deployment over an empty file succeeded; its backup pushed the oldest
\* one out of a full backup directory
C31_Witness ==
    \E p \in Procs :
        /\ Ended(p) /\ resp[p] = 200 /\ prior = File(<<>>) /\ Archived(p)
        /\ Len(backups) = MAX_BACKUPS /\ NewestBackup.data = <<>>
        /\ backups[1] = FullBackups[2]

\* the waits and probes of p's health monitor, in order
Monitor(p) == SelectSeq(Forward(p), LAMBDA e : e[1] \in {"wait", "probe"})

\* C32: the health monitor starts with the INITIAL_DELAY wait, taken right
\* after the restart command succeeded, then probes and INTERVAL waits
\* alternate: every probe follows a wait that has elapsed, every interval
\* wait follows a probe that answered running, and nothing follows the
\* CHECK_COUNT-th probe or a probe that answered down.
C32_MonitorTiming ==
    \A p \in Procs :
        LET m == Monitor(p)
            f == Forward(p)
        IN /\ Len(m) <= 2 * CHECK_COUNT
           /\ \A n \in 1..Len(m) :
                /\ n = 1 => m[n] = <<"wait", "delay">>
                /\ n % 2 = 0 => m[n][1] = "probe"
                /\ (n % 2 = 1 /\ n > 1) => (m[n] = <<"wait", "interval">> /\ m[n - 1] = <<"probe", "up">>)
                /\ m[n] = <<"probe", "down">> => n = Len(m)
           /\ \A n \in 1..Len(f) :
                f[n] = <<"wait", "delay">> => (n > 1 /\ f[n - 1] = <<"restart", "ok">>)
           /\ pc[p] \in {"delay", "interval"} => (cur # p /\ Len(m) % 2 = 0)
           /\ pc[p] = "delay" => (Len(m) = 0 /\ f[Len(f)] = <<"restart", "ok">>)
           /\ pc[p] = "interval" => (Len(m) < 2 * CHECK_COUNT /\ m[Len(m)] = <<"probe", "up">>)
           /\ pc[p] = "probe" => (Len(m) % 2 = 1 /\ m[Len(m)][1] = "wait")
           /\ pc[p] = "respond" => (Len(m) = 2 * CHECK_COUNT /\ m[Len(m)] = <<"probe", "up">>)

\* the last probe answered running and the handler went on to respond
\* without another wait
C32_Witness ==
    \E p \in Procs :
        /\ pc[p] = "respond" /\ cur = p
        /\ Len(Monitor(p)) = 2 * CHECK_COUNT
        /\ Monitor(p)[2 * CHECK_COUNT - 1] = <<"wait", "interval">>

\* position of the last event of trace[p] satisfying Q (0 if none)
LastPos(p, Q(_)) ==
    IF \E n \in 1..Len(trace[p]) : Q(trace[p][n])
    THEN CHOOSE n \in 1..Len(trace[p]) :
            Q(trace[p][n]) /\ \A m \in (n + 1)..Len(trace[p]) : ~Q(trace[p][m])
    ELSE 0
IsRestart(e) == e[1] \in {"restart", "rbrestart"}
ChangesFile(e) == e \in {<<"apply", "ok">>, <<"rbwrite", "ok">>, <<"unlink", "ok">>}
\* the business file after the first n events of p
DiskAfter(p, n) ==
    LET t == SubSeq(trace[p], 1, n)
        ch == SelectSeq(t, ChangesFile)
    IN IF Len(ch) = 0 THEN prior
       ELSE CASE ch[Len(ch)] = <<"apply", "ok">> -> File(Stringify(cleanConfig[p]))
              [] ch[Len(ch)] = <<"rbwrite", "ok">> -> File(rollbackContent[p].data)
              [] OTHER -> Absent
\* the business file the daemon found at the last restart command of p; the
\* file p started with if p issued none
StartedWith(p) == DiskAfter(p, LastPos(p, IsRestart))

\* C33 as stated: when a deployment ends, the business file on disk is the
\* one the daemon was last restarted with: after its last change of the
\* file the deployment has issued a restart.
C33_Original ==
    \A p \in Procs :
        Ended(p) => (proxy = DiskAfter(p, Len(trace[p])) /\ proxy = StartedWith(p))

\* how many events of that name p has logged
Count(p, name) == Len(SelectSeq(trace[p], LAMBDA e : e[1] = name))
\* positions inside the catch block
CatchPcs == {"rbwrite", "rbrestart", "rbwait", "rbprobe", "cleanup", "fail"}

\* C34: a deployment issues at most one verification command, at most one
\* forward and one rollback restart, at most CHECK_COUNT + 1 status probes,
\* and enters its catch block at most once: from there it only goes on to
\* its end.
C34_CommandBudget ==
    /\ [](\A p \in Procs :
            /\ Count(p, "check") <= 1
            /\ Count(p, "restart") <= 1 /\ Count(p, "rbrestart") <= 1
            /\ Count(p, "probe") <= CHECK_COUNT /\ Count(p, "rbprobe") <= 1
            /\ Count(p, "probe") + Count(p, "rbprobe") <= CHECK_COUNT + 1
            /\ Count(p, "rbwrite") <= 1 /\ Count(p, "unlink") <= 1
            /\ Count(p, "rbwrite") + Count(p, "unlink") <= 1)
    /\ [][\A p \in Procs :
            /\ pc[p] \in CatchPcs => pc'[p] \in CatchPcs \cup {"finally", "hung"}
            /\ pc[p] = "finally" => pc'[p] \in {"finally", "done"}
            /\ pc[p] \in {"done", "hung"} => pc'[p] = pc[p]]_vars

\* the last probe of the monitor and the probe after the rollback were both
\* made: CHECK_COUNT + 1 probes, two restarts, one verification
C34_Witness ==
    \E p \in Procs :
        /\ Ended(p)
        /\ Count(p, "probe") = CHECK_COUNT /\ Count(p, "rbprobe") = 1
        /\ Count(p, "restart") = 1 /\ Count(p, "rbrestart") = 1 /\ Count(p, "check") = 1

\* C35: sanitizing a sanitized document gives the same document, and the
\* same text, for every decoded document (each business key absent, null,
\* falsy, empty or non-empty; any protected or foreign keys).
C35_SanitizeIdempotent ==
    \A p \in Procs :
        Has(p, <<"sanitize", "ok">>) =>
            /\ cleanConfig[p] = CleanConfig(rawConfig[p].doc)
            /\ CleanConfig(cleanConfig[p]) = cleanConfig[p]
            /\ Stringify(CleanConfig(cleanConfig[p])) = Stringify(cleanConfig[p])

\* a document with a null, a missing and a falsy business key and with
\* protected keys was sanitized into a different document
C35_Witness ==
    \E p \in Procs :
        /\ Has(p, <<"sanitize", "ok">>)
        /\ Get(rawConfig[p].doc, "dns") = "null"
        /\ Get(rawConfig[p].doc, "outbounds") = "undefined"
        /\ Get(rawConfig[p].doc, "ntp") = "zero"
        /\ ProtectedKeys \subseteq DOMAIN rawConfig[p].doc
        /\ cleanConfig[p] # rawConfig[p].doc
        /\ DOMAIN cleanConfig[p] = BusinessKeys

\* C36: the client shows the success notification only for an answer of 200,
\* which the server gives only to a deployment whose steps all succeeded; an
\* answer of 401, 429 or 500 (a recovered rollback included) is shown as a
\* failure; and once the progress notification exists, Deploy ends only
\* after showing one of the two and destroying the notification.
C36_ClientNotification ==
    /\ cl.note = "success" => (cl.status = 200 /\ resp[cl.req] = 200)
    /\ \A p \in Procs : (Ended(p) /\ resp[p] = 200) => AllStepsSucceeded(p)
    /\ cl.status \in {401, 429, 500} => cl.note = "error"
    /\ cl.pc = "sleep" => (cl.note \in {"success", "error"} /\ ~cl.destroyed)
    /\ cl.pc = "done" => (cl.note \in {"success", "error"} /\ cl.destroyed)
    /\ cl.destroyed => cl.pc = "done"

\* the client showed success for a deployment the server answered with 200,
\* and destroyed the notification
C36_Witness ==
    /\ cl.pc = "done" /\ cl.note = "success" /\ cl.destroyed
    /\ cl.status = 200 /\ resp[cl.req] = 200

\* the interval of loadDependence fires once
PollTicks == poll.pc = "poll" /\ poll'.counter = poll.counter + 1

\* the promise of the poll is settled
PollSettled == poll.out \in {"resolved", "rejected"}

\* C37: the poll of loadDependence terminates: a started interval is
\* cleared in the end, and it is cleared exactly when the promise settles,
\* on both outcomes; a tick that sees the library resolves and no other tick
\* does; without the library the 22nd tick rejects, so no call sees more than
\* 22 ticks; and a settled promise never changes its outcome.
C37_PollTerminates ==
    /\ [](poll.counter <= 22)
    /\ [](poll.timer <=> (poll.pc = "poll" /\ ~PollSettled))
    /\ [](PollSettled => ~poll.timer)
    /\ [](poll.out = "rejected" => (poll.counter = 22 /\ ~poll.lib))
    /\ [](poll.out = "resolved" => (poll.counter \in 1..22 /\ poll.lib))
    /\ [][PollTicks => (poll'.out = "resolved" <=> poll.lib)]_vars
    /\ [][PollTicks => (poll'.out = "rejected" <=> (~poll.lib /\ poll.counter = 21))]_vars
    /\ [][(PollSettled /\ poll'.n = poll.n) => poll' = poll]_vars
    /\ poll.timer ~> ~poll.timer

\* the library never showed up and the 22nd tick rejected
C37_Witness ==
    /\ poll.out = "rejected" /\ poll.counter = 22 /\ ~poll.timer /\ poll.pc = "threw"

====
